---- MODULE Spec2Model ----
(***************************************************************************)
(* Learn / browse session state machine of the flashcard trainer.          *)
(*                                                                         *)
(* The Flask session is a key/value store (variable session, a function    *)
(* whose domain is the set of keys present).  The worksheet is the         *)
(* sequence of rows sheet.  Time is counted in ticks, SubSecond ticks to   *)
(* the second; a formatted timestamp keeps whole seconds only.             *)
(***************************************************************************)
EXTENDS Integers, Sequences, FiniteSets, TLC

VARIABLES
    session,    \* flask.session: key -> value, DOMAIN = keys present
    sheet,      \* rows of the worksheet (last_shown as a formatted string)
    now,        \* datetime.now(), in ticks
    answered,   \* number of successful process_answer calls so far
    ticks,      \* number of clock steps so far
    writers     \* update_spreadsheet calls in flight: position and locals

vars == <<session, sheet, now, answered, ticks, writers>>

----------------------------------------------------------------------------
(* Bounds of the exploration *)

MaxAnswers == 2
MaxTicks == 1
MaxIndex == 2

\* config.max_cards_per_session: read from the deployment's settings file
MaxCardsPerSession == 2

\* clock ticks per second: datetimes carry a sub-second part that
\* format_timestamp drops
SubSecond == 2

(* Program constants *)

MaxLevel == 7
SecondsPerDay == 86400

----------------------------------------------------------------------------
(* src/session_manager.py *)

AUTH_STATE == "auth.state"
AUTH_REDIRECT_URI == "auth.redirect_uri"
ACCESS_TOKEN == "auth.access_token"
ACCESS_TOKEN_EXPIRY == "auth.access_token_expiry"
REFRESH_TOKEN_ID == "auth.refresh_token_id"
USER_ID == "user.id"
USER_GOOGLE_ID == "user.google_id"
LEARNING_CARDS == "learning.cards"
LEARNING_CURRENT_INDEX == "learning.current_index"
LEARNING_ANSWERS == "learning.answers"
LEARNING_INCORRECT_CARDS == "learning.incorrect_cards"
LEARNING_REVIEWING_INCORRECT == "learning.reviewing_incorrect"
LEARNING_ACTIVE_TAB == "learning.active_tab"
LEARNING_ORIGINAL_COUNT == "learning.original_count"
LEARNING_SHEET_GID == "learning.sheet_gid"
LEARNING_LAST_LEVEL_CHANGE == "learning.last_level_change"
REVIEW_CARDS == "review.cards"
REVIEW_CURRENT_INDEX == "review.current_index"
REVIEW_ACTIVE_TAB == "review.active_tab"
REVIEW_SHEET_GID == "review.sheet_gid"

LearningKeys ==
    { LEARNING_CARDS, LEARNING_CURRENT_INDEX, LEARNING_ANSWERS,
      LEARNING_INCORRECT_CARDS, LEARNING_REVIEWING_INCORRECT,
      LEARNING_ACTIVE_TAB, LEARNING_ORIGINAL_COUNT, LEARNING_SHEET_GID,
      LEARNING_LAST_LEVEL_CHANGE }

ReviewKeys ==
    { REVIEW_CARDS, REVIEW_CURRENT_INDEX, REVIEW_ACTIVE_TAB, REVIEW_SHEET_GID }

AuthKeys ==
    { AUTH_STATE, AUTH_REDIRECT_URI, ACCESS_TOKEN, ACCESS_TOKEN_EXPIRY,
      REFRESH_TOKEN_ID }

UserKeys == { USER_ID, USER_GOOGLE_ID }

\* the keys that start with "<namespace>."
NamespaceKeys(namespace) ==
    IF namespace = "learning" THEN LearningKeys
    ELSE IF namespace = "review" THEN ReviewKeys
    ELSE IF namespace = "auth" THEN AuthKeys
    ELSE IF namespace = "user" THEN UserKeys
    ELSE {}

sm_has(s, key) == key \in DOMAIN s

sm_get(s, key, default) == IF key \in DOMAIN s THEN s[key] ELSE default

sm_set(s, key, value) ==
    [k \in (DOMAIN s) \cup {key} |-> IF k = key THEN value ELSE s[k]]

sm_remove(s, key) == [k \in (DOMAIN s) \ {key} |-> s[k]]

\* clear_namespace that clears the whole session (session.clear())
clear_namespace_all(s, namespace) == <<>>

clear_namespace(s, namespace) ==
    [k \in (DOMAIN s) \ NamespaceKeys(namespace) |-> s[k]]

----------------------------------------------------------------------------
(* src/utils.py *)

\* strftime("%Y-%m-%d %H:%M:%S"): the sub-second part is dropped
format_timestamp(dt) == dt \div SubSecond

\* strptime of the same format: a datetime on a whole second
parse_timestamp(str) == str * SubSecond

----------------------------------------------------------------------------
(* src/models.py *)

\* next_level without the clamp at the top level
next_level_unclamped(l) == l + 1

next_level(l) == IF l < MaxLevel THEN l + 1 ELSE MaxLevel

previous_level(l) == IF l > 0 THEN l - 1 ELSE 0

\* an interval table with a dip: 12 days at level 5 where 25 is meant
days_to_review_dip(l) ==
    CASE l = 0 -> 0
      [] l = 1 -> 2
      [] l = 2 -> 5
      [] l = 3 -> 9
      [] l = 4 -> 15
      [] l = 5 -> 12
      [] l = 6 -> 40
      [] l = 7 -> 60

days_to_review(l) ==
    CASE l = 0 -> 0
      [] l = 1 -> 2
      [] l = 2 -> 5
      [] l = 3 -> 9
      [] l = 4 -> 15
      [] l = 5 -> 25
      [] l = 6 -> 40
      [] l = 7 -> 60

\* Card.next_review, in ticks
next_review(card) ==
    card.last_shown + days_to_review(card.level) * SecondsPerDay * SubSecond

\* Card.seconds_to_next_review: int() truncates towards zero
seconds_to_next_review(card, t) ==
    LET d == next_review(card) - t
    IN  IF d >= 0 THEN d \div SubSecond ELSE 0 - ((0 - d) \div SubSecond)

\* is_delayed that counts a card as overdue at the very instant it falls due
is_delayed_inclusive(card, t) == t >= next_review(card)

\* Card.is_delayed
is_delayed(card, t) == t > next_review(card)

\* CardSet.cards_to_review
cards_to_review(cards, ignore_unshown, t) ==
    IF ignore_unshown
    THEN SelectSeq(cards, LAMBDA c : is_delayed(c, t) /\ c.cnt_shown > 0)
    ELSE SelectSeq(cards, LAMBDA c : is_delayed(c, t))

\* sorted(..., key=seconds_to_next_review): stable, ascending
RECURSIVE sorted_cards(_, _)
sorted_cards(cards, t) ==
    IF cards = <<>> THEN <<>>
    ELSE LET n    == Len(cards)
             c    == cards[n]
             rest == sorted_cards(SubSeq(cards, 1, n - 1), t)
             p    == Cardinality({i \in 1..Len(rest) :
                        seconds_to_next_review(rest[i], t)
                            <= seconds_to_next_review(c, t)})
         IN  SubSeq(rest, 1, p) \o <<c>> \o SubSeq(rest, p + 1, Len(rest))

\* limit: int | None = None; the model writes None as -1
NoLimit == 0 - 1

\* sorted_cards[:limit] if limit else sorted_cards   (None and 0 are falsy)
truncate(cards, limit) ==
    IF limit # NoLimit /\ limit # 0 /\ limit < Len(cards)
    THEN SubSeq(cards, 1, limit)
    ELSE cards

\* the list handed to the shuffle, truncated without sorting first
cards_before_shuffle_unsorted(cards, limit, ignore_unshown, t) ==
    truncate(cards_to_review(cards, ignore_unshown, t), limit)

\* the list get_cards_to_review hands to random.shuffle
cards_before_shuffle(cards, limit, ignore_unshown, t) ==
    truncate(sorted_cards(cards_to_review(cards, ignore_unshown, t), t), limit)

\* the outcomes of random.shuffle on a list of n elements
shuffles(n) == {p \in [1..n -> 1..n] : \A i, j \in 1..n : p[i] = p[j] => i = j}

----------------------------------------------------------------------------
(* src/services/learning/statistics.py *)

Lower(ch) ==
    CASE ch = "A" -> "a"
      [] ch = "B" -> "b"
      [] OTHER -> ch

RECURSIVE lstrip(_)
lstrip(str) ==
    IF str # <<>> /\ Head(str) = " " THEN lstrip(Tail(str)) ELSE str

RECURSIVE rstrip(_)
rstrip(str) ==
    IF str # <<>> /\ str[Len(str)] = " "
    THEN rstrip(SubSeq(str, 1, Len(str) - 1)) ELSE str

\* str.strip().lower()
normalized(str) ==
    LET s == rstrip(lstrip(str)) IN [i \in 1..Len(s) |-> Lower(s[i])]

\* CardStatistics.check_answer
check_answer(user_answer, correct_answer) ==
    normalized(user_answer) = normalized(correct_answer)

\* update_on_answer that counts a showing only when the answer is a miss
update_on_answer_uncounted(card, is_correct, t) ==
    [card EXCEPT
        !.cnt_shown = IF is_correct THEN @ ELSE @ + 1,
        !.last_shown = t,
        !.cnt_corr_answers = IF is_correct THEN @ + 1 ELSE @,
        !.level = IF is_correct THEN next_level(@) ELSE previous_level(@)]

\* update_on_answer that sends a missed card back to level 0
update_on_answer_reset(card, is_correct, t) ==
    [card EXCEPT
        !.cnt_shown = @ + 1,
        !.last_shown = t,
        !.cnt_corr_answers = IF is_correct THEN @ + 1 ELSE @,
        !.level = IF is_correct THEN next_level(@) ELSE 0]

\* CardStatistics.update_on_answer: the updated Card
update_on_answer(card, is_correct, t) ==
    [card EXCEPT
        !.cnt_shown = @ + 1,
        !.last_shown = t,
        !.cnt_corr_answers = IF is_correct THEN @ + 1 ELSE @,
        !.level = IF is_correct THEN next_level(@) ELSE previous_level(@)]

\* CardStatistics.update_on_answer: the LevelChange, as to_dict() gives it
level_change(original_level, updated_card, is_correct) ==
    [from |-> original_level,
     to |-> updated_card.level,
     is_correct |-> is_correct]

\* create_answer_record that tags every record as a first-pass answer
create_answer_record_untagged(card, user_answer, is_correct, is_review, card_index, t) ==
    [card_index |-> card_index,
     word |-> card.word,
     translation |-> card.translation,
     user_answer |-> user_answer,
     correct_answer |-> card.word,
     is_correct |-> is_correct,
     timestamp |-> t,
     is_review |-> FALSE]

\* CardStatistics.create_answer_record
create_answer_record(card, user_answer, is_correct, is_review, card_index, t) ==
    [card_index |-> card_index,
     word |-> card.word,
     translation |-> card.translation,
     user_answer |-> user_answer,
     correct_answer |-> card.word,
     is_correct |-> is_correct,
     timestamp |-> t,
     is_review |-> is_review]

----------------------------------------------------------------------------
(* src/gsheet.py *)

TabName == "Verbs"
TabGid == 101

\* The cells of a worksheet row.  A numeric cell holds the number its text
\* spells, 0 for the empty cell too; NotANumber is a cell whose text int()
\* rejects.  cols is the number of cells of the row; SheetColumns cells
\* reach up to last_shown (column J).
NotANumber == 0 - 1
SheetColumns == 10

\* read_cards_from_worksheet, line 159: a row of fewer than 5 cells or
\* without an id is skipped (an empty id cell is id 0)
skipped(row) == row.cols < 5 \/ row.id = 0

\* read_cards_from_worksheet, lines 165-183: int() or Levels() raises on
\* the cells of the row
raises(row) ==
    \/ row.id = NotANumber
    \/ row.cnt_shown = NotANumber
    \/ row.cnt_corr_answers = NotANumber
    \/ row.level = NotANumber
    \/ row.level \notin 0..MaxLevel

\* read_cards_from_worksheet that lets the exception of a row end the read
read_cards_from_worksheet_fail_fast(rows) ==
    LET kept == SelectSeq(rows, LAMBDA r : ~skipped(r))
    IN  IF \E i \in 1..Len(kept) : raises(kept[i])
        THEN <<>>
        ELSE [i \in 1..Len(kept) |->
                [id |-> kept[i].id, word |-> kept[i].word,
                 translation |-> kept[i].translation,
                 cnt_shown |-> kept[i].cnt_shown,
                 cnt_corr_answers |-> kept[i].cnt_corr_answers,
                 level |-> kept[i].level,
                 last_shown |-> parse_timestamp(kept[i].last_shown)]]

\* read_cards_from_worksheet: a row that is neither skipped nor raises
\* becomes a Card, last_shown parsed
read_cards_from_worksheet(rows) ==
    LET kept == SelectSeq(rows, LAMBDA r : ~skipped(r) /\ ~raises(r))
    IN  [i \in 1..Len(kept) |->
            [id |-> kept[i].id, word |-> kept[i].word,
             translation |-> kept[i].translation,
             cnt_shown |-> kept[i].cnt_shown,
             cnt_corr_answers |-> kept[i].cnt_corr_answers,
             level |-> kept[i].level,
             last_shown |-> parse_timestamp(kept[i].last_shown)]]

----------------------------------------------------------------------------
(* src/services/learning/card_session.py *)

\* CardSessionManager._serialize_card: last_shown becomes a string
serialize_card(card) == [card EXCEPT !.last_shown = format_timestamp(@)]

\* Card(**card_dict): pydantic parses the last_shown string
deserialize_card(card_data) ==
    [card_data EXCEPT !.last_shown = parse_timestamp(@)]

\* CardSessionManager.initialize
initialize(s, cards_key, index_key, tab_key, gid_key, cards, tab_name, gid) ==
    LET cards_data == [i \in 1..Len(cards) |-> serialize_card(cards[i])]
        s1 == sm_set(s, cards_key, cards_data)
        s2 == sm_set(s1, index_key, 0)
        s3 == sm_set(s2, tab_key, tab_name)
    IN  sm_set(s3, gid_key, gid)

\* CardSessionManager.has_active_session / get_state is not None
has_active_session(s, cards_key, index_key) ==
    sm_has(s, cards_key) /\ sm_has(s, index_key)

\* update_card that writes at the cursor instead of the given position
update_card_at_cursor(s, cards_key, card_index, card_data) ==
    LET cards == sm_get(s, cards_key, <<>>)
        at    == sm_get(s, LEARNING_CURRENT_INDEX, 0)
    IN  IF 0 <= at /\ at < Len(cards)
        THEN sm_set(s, cards_key, [cards EXCEPT ![at + 1] = card_data])
        ELSE s

\* CardSessionManager.update_card (card_index counts from 0)
update_card(s, cards_key, card_index, card_data) ==
    LET cards == sm_get(s, cards_key, <<>>)
    IN  IF 0 <= card_index /\ card_index < Len(cards)
        THEN sm_set(s, cards_key, [cards EXCEPT ![card_index + 1] = card_data])
        ELSE s

----------------------------------------------------------------------------
(* Values returned by the services *)

\* a Python None
None == [some |-> FALSE, raised |-> FALSE]

\* an IndexError escaping the call
Raised == [some |-> FALSE, raised |-> TRUE]

\* seq[i] with Python's rules: 0-based, negative i counts from the end
InRange(seq, i) == 0 - Len(seq) <= i /\ i < Len(seq)

PyIndex(seq, i) == IF i >= 0 THEN seq[i + 1] ELSE seq[Len(seq) + i + 1]

----------------------------------------------------------------------------
(* src/services/learning/learn_service.py *)

\* get_current_card_context, lines 154-155, without the cursor reset
start_incorrect_review_keep_index(s) ==
    sm_set(s, LEARNING_REVIEWING_INCORRECT, TRUE)

\* get_current_card_context, lines 154-155: enter the review pass
start_incorrect_review(s) ==
    sm_set(sm_set(s, LEARNING_REVIEWING_INCORRECT, TRUE), LEARNING_CURRENT_INDEX, 0)

\* the review pass ending one position late
review_complete_late(index, incorrect) == index > Len(incorrect)

\* get_current_card_context, line 163: the review pass is over
review_complete(index, incorrect) == index >= Len(incorrect)

\* the review pass reading the snapshot at the cursor itself
review_card_index_direct(incorrect, index) == index

\* get_current_card_context, line 167: the snapshot position of a queued card
review_card_index(incorrect, index) == PyIndex(incorrect, index)

\* LearnService.get_current_card_context: [s |-> session after, ctx |-> result]
RECURSIVE get_current_card_context(_)
get_current_card_context(s) ==
    IF ~has_active_session(s, LEARNING_CARDS, LEARNING_CURRENT_INDEX)
    THEN [s |-> s, ctx |-> None]
    ELSE
    LET reviewing == sm_get(s, LEARNING_REVIEWING_INCORRECT, FALSE)
        index     == s[LEARNING_CURRENT_INDEX]
        cards     == s[LEARNING_CARDS]
        incorrect == sm_get(s, LEARNING_INCORRECT_CARDS, <<>>)
        state     == [active_tab |-> sm_get(s, LEARNING_ACTIVE_TAB, "Sheet1"),
                      sheet_gid |-> sm_get(s, LEARNING_SHEET_GID, 0)]
        context(card, is_review, total) ==
            [some |-> TRUE, raised |-> FALSE,
             card |-> card, is_review |-> is_review,
             index |-> index, total |-> total,
             is_reviewing_incorrect |-> reviewing,
             active_tab |-> state.active_tab, sheet_gid |-> state.sheet_gid]
    IN  IF index >= Len(cards) /\ ~reviewing
        THEN IF incorrect # <<>>
             THEN get_current_card_context(start_incorrect_review(s))
             ELSE [s |-> s, ctx |-> None]
        ELSE IF reviewing
        THEN IF review_complete(index, incorrect)
             THEN [s |-> s, ctx |-> None]
             ELSE IF ~InRange(incorrect, index)
                     \/ ~InRange(cards, review_card_index(incorrect, index))
             THEN [s |-> s, ctx |-> Raised]
             ELSE [s |-> s,
                   ctx |-> context(PyIndex(cards, review_card_index(incorrect, index)),
                                   TRUE, Len(incorrect))]
        ELSE IF ~InRange(cards, index)
             THEN [s |-> s, ctx |-> Raised]
             ELSE [s |-> s, ctx |-> context(PyIndex(cards, index), FALSE, Len(cards))]

\* advance_to_next that wraps around at the end of the retry queue, as
\* the browse navigation does
advance_to_next_wrapping(s) ==
    LET next  == sm_get(s, LEARNING_CURRENT_INDEX, 0) + 1
        queue == sm_get(s, LEARNING_INCORRECT_CARDS, <<>>)
    IN  IF sm_get(s, LEARNING_REVIEWING_INCORRECT, FALSE) /\ next >= Len(queue)
        THEN sm_set(s, LEARNING_CURRENT_INDEX, 0)
        ELSE sm_set(s, LEARNING_CURRENT_INDEX, next)

\* LearnService.advance_to_next
advance_to_next(s) ==
    sm_set(s, LEARNING_CURRENT_INDEX, sm_get(s, LEARNING_CURRENT_INDEX, 0) + 1)

\* a miss queues a retry in the review pass too
queues_retry_in_any_pass(is_correct, reviewing) == ~is_correct

\* process_answer, line 236: only a first-pass miss queues a retry
queues_retry(is_correct, reviewing) == ~is_correct /\ ~reviewing

\* process_answer that raises the level on a first-attempt answer only: a
\* correct answer in the retry pass leaves the level as it is
answer_card_first_attempt_only(s, context, user_answer, t) ==
    LET card       == context.card
        reviewing  == context.is_reviewing_incorrect
        is_correct == check_answer(user_answer, card.word)
        card_index == IF reviewing
                      THEN PyIndex(sm_get(s, LEARNING_INCORRECT_CARDS, <<>>),
                                   context.index)
                      ELSE context.index
        card_obj   == deserialize_card(card)
        raised_any == update_on_answer(card_obj, is_correct, t)
        updated    == IF reviewing /\ is_correct
                      THEN [raised_any EXCEPT !.level = card_obj.level]
                      ELSE raised_any
        change     == level_change(card_obj.level, updated, is_correct)
        s1 == update_card(s, LEARNING_CARDS, card_index, serialize_card(updated))
        record == create_answer_record(card, user_answer, is_correct,
                                       reviewing, card_index, t)
        s2 == sm_set(s1, LEARNING_ANSWERS,
                     Append(sm_get(s1, LEARNING_ANSWERS, <<>>), record))
        s3 == IF queues_retry(is_correct, reviewing)
              THEN sm_set(s2, LEARNING_INCORRECT_CARDS,
                          Append(sm_get(s2, LEARNING_INCORRECT_CARDS, <<>>),
                                 context.index))
              ELSE s2
        s4 == sm_set(s3, LEARNING_LAST_LEVEL_CHANGE, change)
    IN  [s |-> s4, res |-> [success |-> TRUE, raised |-> FALSE,
                            is_correct |-> is_correct,
                            level_change |-> change]]

\* process_answer, lines 201-249: the answer to the card of context
answer_card(s, context, user_answer, t) ==
    LET card       == context.card
        reviewing  == context.is_reviewing_incorrect
        is_correct == check_answer(user_answer, card.word)
        card_index == IF reviewing
                      THEN PyIndex(sm_get(s, LEARNING_INCORRECT_CARDS, <<>>),
                                   context.index)
                      ELSE context.index
        card_obj   == deserialize_card(card)
        updated    == update_on_answer(card_obj, is_correct, t)
        change     == level_change(card_obj.level, updated, is_correct)
        s1 == update_card(s, LEARNING_CARDS, card_index, serialize_card(updated))
        record == create_answer_record(card, user_answer, is_correct,
                                       reviewing, card_index, t)
        s2 == sm_set(s1, LEARNING_ANSWERS,
                     Append(sm_get(s1, LEARNING_ANSWERS, <<>>), record))
        s3 == IF queues_retry(is_correct, reviewing)
              THEN sm_set(s2, LEARNING_INCORRECT_CARDS,
                          Append(sm_get(s2, LEARNING_INCORRECT_CARDS, <<>>),
                                 context.index))
              ELSE s2
        s4 == sm_set(s3, LEARNING_LAST_LEVEL_CHANGE, change)
    IN  [s |-> s4, res |-> [success |-> TRUE, raised |-> FALSE,
                            is_correct |-> is_correct,
                            level_change |-> change]]

\* process_answer that also moves the cursor on
process_answer_advancing(s0, user_answer, t) ==
    LET got == get_current_card_context(s0)
    IN  IF got.ctx.raised
        THEN [s |-> got.s, res |-> [success |-> FALSE, raised |-> TRUE]]
        ELSE IF ~got.ctx.some
        THEN [s |-> got.s, res |-> [success |-> FALSE, raised |-> FALSE,
                                    error |-> "No active session"]]
        ELSE LET r == answer_card(got.s, got.ctx, user_answer, t)
             IN  [r EXCEPT !.s = advance_to_next(@)]

\* process_answer without the check for a missing context: the access to
\* the card of None raises
process_answer_unchecked(s0, user_answer, t) ==
    LET got == get_current_card_context(s0)
    IN  IF got.ctx.raised \/ ~got.ctx.some
        THEN [s |-> got.s, res |-> [success |-> FALSE, raised |-> TRUE]]
        ELSE answer_card(got.s, got.ctx, user_answer, t)

\* LearnService.process_answer: [s |-> session after, res |-> result]
process_answer(s0, user_answer, t) ==
    LET got == get_current_card_context(s0)
    IN  IF got.ctx.raised
        THEN [s |-> got.s, res |-> [success |-> FALSE, raised |-> TRUE]]
        ELSE IF ~got.ctx.some
        THEN [s |-> got.s, res |-> [success |-> FALSE, raised |-> FALSE,
                                    error |-> "No active session"]]
        ELSE answer_card(got.s, got.ctx, user_answer, t)

\* LearnService.get_level_change: [s |-> session after, value |-> result]
get_level_change(s) ==
    IF sm_has(s, LEARNING_LAST_LEVEL_CHANGE)
    THEN [s |-> sm_remove(s, LEARNING_LAST_LEVEL_CHANGE),
          value |-> [some |-> TRUE, change |-> s[LEARNING_LAST_LEVEL_CHANGE]]]
    ELSE [s |-> s, value |-> [some |-> FALSE]]

\* calculate_session_stats that counts first-pass answers only as answered
calculate_session_stats_first_pass(answers) ==
    LET total   == Len(answers)
        correct == Cardinality({i \in 1..total : answers[i].is_correct})
        review  == Cardinality({i \in 1..total : answers[i].is_review})
    IN  [total_answered |-> total - review,
         correct_answers |-> correct,
         accuracy_percentage |-> IF total > 0 THEN (correct * 100) \div total ELSE 0,
         review_count |-> review,
         first_attempt_count |-> total - review]

\* calculate_session_stats that counts a correct answer only in the first pass
calculate_session_stats_first_pass_correct(answers) ==
    LET total   == Len(answers)
        correct == Cardinality({i \in 1..total : answers[i].is_correct
                                                 /\ ~answers[i].is_review})
        review  == Cardinality({i \in 1..total : answers[i].is_review})
    IN  [total_answered |-> total,
         correct_answers |-> correct,
         accuracy_percentage |-> IF total > 0 THEN (correct * 100) \div total ELSE 0,
         review_count |-> review,
         first_attempt_count |-> total - review]

\* CardStatistics.calculate_session_stats
calculate_session_stats(answers) ==
    LET total   == Len(answers)
        correct == Cardinality({i \in 1..total : answers[i].is_correct})
        review  == Cardinality({i \in 1..total : answers[i].is_review})
    IN  [total_answered |-> total,
         correct_answers |-> correct,
         accuracy_percentage |-> IF total > 0 THEN (correct * 100) \div total ELSE 0,
         review_count |-> review,
         first_attempt_count |-> total - review]

\* update_spreadsheet, lines 203-229: the cards read from the worksheet, with
\* the dynamic fields of the cards to update merged in by id
merge_card_updates(rows, cards) ==
    LET all_cards == read_cards_from_worksheet(rows)
        hit(c)    == {j \in 1..Len(cards) : cards[j].id = c.id}
        \* card_updates = {card.id: card}: the last card of an id wins
        upd(c)    == cards[CHOOSE j \in hit(c) : \A k \in hit(c) : k <= j]
    IN  [i \in 1..Len(all_cards) |->
            IF hit(all_cards[i]) = {} THEN all_cards[i]
            ELSE [all_cards[i] EXCEPT
                    !.cnt_shown = upd(all_cards[i]).cnt_shown,
                    !.cnt_corr_answers = upd(all_cards[i]).cnt_corr_answers,
                    !.level = upd(all_cards[i]).level,
                    !.last_shown = upd(all_cards[i]).last_shown]]

\* update_spreadsheet, lines 232-263: worksheet.batch_update of the dynamic
\* columns; the cells of card i of all_cards go to data row i of the sheet
batch_update(rows, all_cards) ==
    [i \in 1..Len(rows) |->
        IF i <= Len(all_cards)
        THEN [rows[i] EXCEPT
                !.cnt_shown = all_cards[i].cnt_shown,
                !.cnt_corr_answers = all_cards[i].cnt_corr_answers,
                !.level = all_cards[i].level,
                !.last_shown = format_timestamp(all_cards[i].last_shown),
                !.cols = IF @ < SheetColumns THEN SheetColumns ELSE @]
        ELSE rows[i]]

\* update_spreadsheet: the rows after the batch update of the dynamic columns
update_spreadsheet(rows, cards) ==
    batch_update(rows, merge_card_updates(rows, cards))

\* _batch_update_cards without the guard on missing session data
batch_update_cards_unguarded(s, rows, user, store_ok) ==
    LET cards_data == sm_get(s, LEARNING_CARDS, <<>>)
        cards_to_update == [i \in 1..Len(cards_data) |-> deserialize_card(cards_data[i])]
    IN  IF ~store_ok
        THEN [ok |-> FALSE, rows |-> rows]
        ELSE [ok |-> TRUE, rows |-> update_spreadsheet(rows, cards_to_update)]

\* LearnService._batch_update_cards: [ok |-> result, rows |-> sheet after]
\* user: the user has an active spreadsheet; store_ok: the sheet calls succeed
batch_update_cards(s, rows, user, store_ok) ==
    LET cards_data == sm_get(s, LEARNING_CARDS, <<>>)
        cards_to_update == [i \in 1..Len(cards_data) |-> deserialize_card(cards_data[i])]
    IN  IF cards_data = <<>> \/ ~sm_has(s, LEARNING_ACTIVE_TAB) \/ ~user
        THEN [ok |-> FALSE, rows |-> rows]
        ELSE IF ~store_ok
        THEN [ok |-> FALSE, rows |-> rows]
        ELSE [ok |-> TRUE, rows |-> update_spreadsheet(rows, cards_to_update)]

\* end_session that keeps the session when the write-back did not succeed
end_session_kept_on_failure(s, rows, early, user, store_ok) ==
    LET answers        == sm_get(s, LEARNING_ANSWERS, <<>>)
        original_count == sm_get(s, LEARNING_ORIGINAL_COUNT, Len(answers))
        stats          == calculate_session_stats(answers)
        update         == batch_update_cards(s, rows, user, store_ok)
    IN  [s |-> IF update.ok THEN clear_namespace(s, "learning") ELSE s,
         rows |-> update.rows,
         res |-> [total_answered |-> stats.total_answered,
                  correct_answers |-> stats.correct_answers,
                  accuracy_percentage |-> stats.accuracy_percentage,
                  review_count |-> stats.review_count,
                  first_attempt_count |-> stats.first_attempt_count,
                  answers |-> answers,
                  original_count |-> original_count,
                  update_successful |-> update.ok,
                  ended_early |-> early,
                  cards_remaining |-> IF early
                                      THEN original_count - stats.total_answered
                                      ELSE 0]]

\* LearnService.end_session: [s |-> session after, rows |-> sheet after, res |-> result]
end_session(s, rows, early, user, store_ok) ==
    LET answers        == sm_get(s, LEARNING_ANSWERS, <<>>)
        original_count == sm_get(s, LEARNING_ORIGINAL_COUNT, Len(answers))
        stats          == calculate_session_stats(answers)
        update         == batch_update_cards(s, rows, user, store_ok)
    IN  [s |-> clear_namespace(s, "learning"),
         rows |-> update.rows,
         res |-> [total_answered |-> stats.total_answered,
                  correct_answers |-> stats.correct_answers,
                  accuracy_percentage |-> stats.accuracy_percentage,
                  review_count |-> stats.review_count,
                  first_attempt_count |-> stats.first_attempt_count,
                  answers |-> answers,
                  original_count |-> original_count,
                  update_successful |-> update.ok,
                  ended_early |-> early,
                  cards_remaining |-> IF early
                                      THEN original_count - stats.total_answered
                                      ELSE 0]]

\* CardSet.get_cards_to_review: the shuffle outcome p applied to the chosen cards
get_cards_to_review(cards, limit, ignore_unshown, t, p) ==
    LET chosen == cards_before_shuffle(cards, limit, ignore_unshown, t)
    IN  [i \in 1..Len(chosen) |-> chosen[p[i]]]

\* the guard of line 110 left out
no_cards_unchecked(cards) == FALSE

\* start_session, line 110: if not cards
no_cards(cards) == cards = <<>>

\* the learn-specific state without a fresh retry queue
init_learn_state_keep_queue(s, cards) ==
    LET s2 == sm_set(s, LEARNING_ANSWERS, <<>>)
        s4 == sm_set(s2, LEARNING_REVIEWING_INCORRECT, FALSE)
    IN  sm_set(s4, LEARNING_ORIGINAL_COUNT, Len(cards))

\* start_session, lines 117-120: the learn-specific state
init_learn_state(s, cards) ==
    LET s2 == sm_set(s, LEARNING_ANSWERS, <<>>)
        s3 == sm_set(s2, LEARNING_INCORRECT_CARDS, <<>>)
        s4 == sm_set(s3, LEARNING_REVIEWING_INCORRECT, FALSE)
    IN  sm_set(s4, LEARNING_ORIGINAL_COUNT, Len(cards))

\* LearnService.start_session: [s |-> session after, res |-> result]
\* read: what reading the card set gives; p: the outcome of the shuffle
start_session(s, rows, t, read, p) ==
    IF read = "not_found"
    THEN [s |-> s, res |-> [success |-> FALSE, card_count |-> 0,
                            error |-> "Card set not found"]]
    ELSE IF read = "error"
    THEN [s |-> s, res |-> [success |-> FALSE, card_count |-> 0,
                            error |-> "APIError"]]
    ELSE
    LET cards == get_cards_to_review(read_cards_from_worksheet(rows),
                                     MaxCardsPerSession, FALSE, t, p)
        s1 == initialize(s, LEARNING_CARDS, LEARNING_CURRENT_INDEX,
                         LEARNING_ACTIVE_TAB, LEARNING_SHEET_GID,
                         cards, TabName, TabGid)
        s5 == init_learn_state(s1, cards)
    IN  IF no_cards(cards)
        THEN [s |-> s, res |-> [success |-> FALSE, card_count |-> 0,
                                error |-> "No cards due for review"]]
        ELSE [s |-> s5, res |-> [success |-> TRUE, card_count |-> Len(cards),
                                 error |-> ""]]

----------------------------------------------------------------------------
(* src/services/learning/review_service.py *)

\* ReviewService.get_current_card_context: [s |-> session after, ctx |-> result]
review_get_current_card_context(s) ==
    IF ~has_active_session(s, REVIEW_CARDS, REVIEW_CURRENT_INDEX)
    THEN [s |-> s, ctx |-> None]
    ELSE
    LET cards == s[REVIEW_CARDS]
        stale == s[REVIEW_CURRENT_INDEX] >= Len(cards)
        index == IF stale THEN 0 ELSE s[REVIEW_CURRENT_INDEX]
        s1    == IF stale THEN sm_set(s, REVIEW_CURRENT_INDEX, 0) ELSE s
    IN  IF ~InRange(cards, index)
        THEN [s |-> s1, ctx |-> Raised]
        ELSE [s |-> s1,
              ctx |-> [some |-> TRUE, raised |-> FALSE,
                       card |-> PyIndex(cards, index), is_review |-> FALSE,
                       index |-> index, total |-> Len(cards),
                       active_tab |-> sm_get(s, REVIEW_ACTIVE_TAB, "Sheet1"),
                       sheet_gid |-> sm_get(s, REVIEW_SHEET_GID, 0)]]

\* start_session of the browse mode that stages the due cards only
review_start_session_due_only(s, rows, read) ==
    IF read = "not_found"
    THEN [s |-> s, res |-> [success |-> FALSE, card_count |-> 0,
                            error |-> "Card set not found"]]
    ELSE IF read = "error"
    THEN [s |-> s, res |-> [success |-> FALSE, card_count |-> 0,
                            error |-> "APIError"]]
    ELSE
    LET cards == SelectSeq(read_cards_from_worksheet(rows),
                           LAMBDA c : c.cnt_shown = 0 \/ c.level < MaxLevel)
    IN  IF cards = <<>>
        THEN [s |-> s, res |-> [success |-> FALSE, card_count |-> 0,
                                error |-> "No cards in this set"]]
        ELSE [s |-> initialize(s, REVIEW_CARDS, REVIEW_CURRENT_INDEX,
                               REVIEW_ACTIVE_TAB, REVIEW_SHEET_GID,
                               cards, TabName, TabGid),
              res |-> [success |-> TRUE, card_count |-> Len(cards), error |-> ""]]

\* ReviewService.start_session: [s |-> session after, res |-> result]
review_start_session(s, rows, read) ==
    IF read = "not_found"
    THEN [s |-> s, res |-> [success |-> FALSE, card_count |-> 0,
                            error |-> "Card set not found"]]
    ELSE IF read = "error"
    THEN [s |-> s, res |-> [success |-> FALSE, card_count |-> 0,
                            error |-> "APIError"]]
    ELSE
    LET cards == read_cards_from_worksheet(rows)
    IN  IF cards = <<>>
        THEN [s |-> s, res |-> [success |-> FALSE, card_count |-> 0,
                                error |-> "No cards in this set"]]
        ELSE [s |-> initialize(s, REVIEW_CARDS, REVIEW_CURRENT_INDEX,
                               REVIEW_ACTIVE_TAB, REVIEW_SHEET_GID,
                               cards, TabName, TabGid),
              res |-> [success |-> TRUE, card_count |-> Len(cards), error |-> ""]]

\* ReviewService.end_session
review_end_session(s) == clear_namespace(s, "review")

\* navigate that steps without the wraparound
navigate_no_wrap(s, direction) ==
    IF ~has_active_session(s, REVIEW_CARDS, REVIEW_CURRENT_INDEX)
    THEN [s |-> s, ok |-> FALSE]
    ELSE
    LET current == s[REVIEW_CURRENT_INDEX]
    IN  IF direction = "next"
        THEN [s |-> sm_set(s, REVIEW_CURRENT_INDEX, current + 1), ok |-> TRUE]
        ELSE IF direction = "prev"
        THEN [s |-> sm_set(s, REVIEW_CURRENT_INDEX, current - 1), ok |-> TRUE]
        ELSE [s |-> s, ok |-> FALSE]

\* ReviewService.navigate: [s |-> session after, ok |-> result]
navigate(s, direction) ==
    IF ~has_active_session(s, REVIEW_CARDS, REVIEW_CURRENT_INDEX)
    THEN [s |-> s, ok |-> FALSE]
    ELSE
    LET total   == Len(s[REVIEW_CARDS])
        current == s[REVIEW_CURRENT_INDEX]
    IN  IF direction = "next"
        THEN [s |-> sm_set(s, REVIEW_CURRENT_INDEX, (current + 1) % total), ok |-> TRUE]
        ELSE IF direction = "prev"
        THEN [s |-> sm_set(s, REVIEW_CURRENT_INDEX, (current - 1) % total), ok |-> TRUE]
        ELSE [s |-> s, ok |-> FALSE]

----------------------------------------------------------------------------
(* The worksheet at the start, and the inputs of the operations *)

\* the clock at the start: day 100 after the epoch, in seconds
StartSeconds == 100 * SecondsPerDay

Row(id, word, shown, corr, level, last_shown) ==
    [id |-> id, word |-> word, translation |-> "t",
     cnt_shown |-> shown, cnt_corr_answers |-> corr,
     level |-> level, last_shown |-> last_shown, cols |-> SheetColumns]

\* a new card, a well-known card that is overdue, a card due in a day
InitSheet ==
    << Row(1, <<"a">>, 0, 0, 0, 0),
       Row(2, <<"B">>, 9, 8, MaxLevel, StartSeconds - 61 * SecondsPerDay),
       Row(3, <<"A", " ">>, 1, 1, 1, StartSeconds - SecondsPerDay) >>

UserAnswers == { <<" ", "A">>, <<"b">> }

\* the clock moves by two days and a tick
ClockSteps == { 2 * SecondsPerDay * SubSecond + 1 }

\* get_worksheet gives the sheet, gives None, or get_all_values raises
ReadOutcomes == { "ok", "not_found", "error" }

\* what the route hands to navigate
Directions == { "next", "prev", "up" }

----------------------------------------------------------------------------------------------------------------------------------------------------
(* The operations *)

\* the shuffle outcomes start_session can meet in the current state
ShufflesNow ==
    shuffles(Len(cards_before_shuffle(read_cards_from_worksheet(sheet),
                                      MaxCardsPerSession, FALSE, now)))

Init ==
    /\ session = <<>>
    /\ sheet = InitSheet
    /\ now = StartSeconds * SubSecond + 1
    /\ answered = 0
    /\ ticks = 0
    /\ writers = <<>>

Tick ==
    /\ ticks < MaxTicks
    /\ \E d \in ClockSteps : now' = now + d
    /\ ticks' = ticks + 1
    /\ UNCHANGED <<session, sheet, answered, writers>>

LearnStart ==
    /\ \E read \in ReadOutcomes, p \in ShufflesNow :
        session' = start_session(session, sheet, now, read, p).s
    /\ UNCHANGED <<sheet, now, answered, ticks, writers>>

LearnGetCtx ==
    /\ session' = get_current_card_context(session).s
    /\ UNCHANGED <<sheet, now, answered, ticks, writers>>

LearnProcessAnswer ==
    /\ answered < MaxAnswers
    /\ \E user_answer \in UserAnswers :
        LET got == process_answer(session, user_answer, now)
        IN  /\ session' = got.s
            /\ answered' = IF got.res.success THEN answered + 1 ELSE answered
    /\ UNCHANGED <<sheet, now, ticks, writers>>

LearnAdvance ==
    /\ sm_get(session, LEARNING_CURRENT_INDEX, 0) < MaxIndex
    /\ session' = advance_to_next(session)
    /\ UNCHANGED <<sheet, now, answered, ticks, writers>>

LearnGetLevelChange ==
    /\ session' = get_level_change(session).s
    /\ UNCHANGED <<sheet, now, answered, ticks, writers>>

LearnEnd ==
    /\ \E early \in BOOLEAN, user \in BOOLEAN, store_ok \in BOOLEAN :
        LET got == end_session(session, sheet, early, user, store_ok)
        IN  /\ session' = got.s
            /\ sheet' = got.rows
    /\ UNCHANGED <<now, answered, ticks, writers>>

ReviewStart ==
    /\ \E read \in ReadOutcomes :
        session' = review_start_session(session, sheet, read).s
    /\ UNCHANGED <<sheet, now, answered, ticks, writers>>

ReviewGetCtx ==
    /\ session' = review_get_current_card_context(session).s
    /\ UNCHANGED <<sheet, now, answered, ticks, writers>>

ReviewNavigate ==
    /\ \E direction \in Directions :
        session' = navigate(session, direction).s
    /\ UNCHANGED <<sheet, now, answered, ticks, writers>>

ReviewEnd ==
    /\ session' = review_end_session(session)
    /\ UNCHANGED <<sheet, now, answered, ticks, writers>>

\* the learn session under a moving clock
Next ==
    \/ Tick
    \/ LearnStart
    \/ LearnGetCtx
    \/ LearnProcessAnswer
    \/ LearnAdvance
    \/ LearnEnd

Spec == Init /\ [][Next]_vars

\* every operation of the learn and the browse service, the clock standing still
NextOps ==
    \/ LearnStart
    \/ LearnGetCtx
    \/ LearnProcessAnswer
    \/ LearnAdvance
    \/ LearnGetLevelChange
    \/ LearnEnd
    \/ ReviewStart
    \/ ReviewGetCtx
    \/ ReviewNavigate
    \/ ReviewEnd

SpecOps == Init /\ [][NextOps]_vars

----------------------------------------------------------------------------
(* The learn session as the claims read it *)

Active == has_active_session(session, LEARNING_CARDS, LEARNING_CURRENT_INDEX)
Cards == sm_get(session, LEARNING_CARDS, <<>>)
Index == sm_get(session, LEARNING_CURRENT_INDEX, 0)
Incorrect == sm_get(session, LEARNING_INCORRECT_CARDS, <<>>)
Reviewing == sm_get(session, LEARNING_REVIEWING_INCORRECT, FALSE)
Answers == sm_get(session, LEARNING_ANSWERS, <<>>)
ReviewCards == sm_get(session, REVIEW_CARDS, <<>>)

\* the step appended one answer record: a process_answer that succeeded
Answered == Len(Answers') = Len(Answers) + 1

\* the fields of a card, as a worksheet row and a staged card both hold them
CardFields ==
    {"id", "word", "translation", "cnt_shown", "cnt_corr_answers", "level",
     "last_shown"}

SameCard(a, b) == \A f \in CardFields : a[f] = b[f]

LevelsOf(cards) == [i \in 1..Len(cards) |-> cards[i].level]

----------------------------------------------------------------------------
\* C1: every card of the learn snapshot, and every row of the worksheet, has
\* a level between 0 and 7 in every reachable state, whatever the answers.
C1_LevelBounds ==
    /\ \A i \in 1..Len(Cards) : Cards[i].level \in 0..7
    /\ \A i \in 1..Len(sheet) : sheet[i].level \in 0..7

\* a level-7 card was answered correctly and a level-0 card incorrectly
C1_Witness ==
    /\ \E k \in 1..Len(Answers) :
        /\ Answers[k].is_correct
        /\ Cards[Answers[k].card_index + 1].level = 7
    /\ \E k \in 1..Len(Answers) :
        /\ ~Answers[k].is_correct
        /\ Cards[Answers[k].card_index + 1].level = 0

----------------------------------------------------------------------------
SnapshotFrame ==
    /\ LevelsOf(Cards') = LevelsOf(Cards)
    /\ LevelsOf(ReviewCards') = LevelsOf(ReviewCards)
    /\ LevelsOf(sheet') = LevelsOf(sheet)

C2_Step ==
    /\ (LearnProcessAnswer /\ Answered) =>
        LET rec == Answers'[Len(Answers')]
            k   == rec.card_index + 1
            l   == Cards[k].level
        IN  /\ Len(Cards') = Len(Cards)
            /\ Cards'[k].level = IF rec.is_correct
                                 THEN (IF l = 7 THEN 7 ELSE l + 1)
                                 ELSE (IF l = 0 THEN 0 ELSE l - 1)
            /\ \A i \in 1..Len(Cards) : i # k => Cards'[i].level = Cards[i].level
            /\ LevelsOf(ReviewCards') = LevelsOf(ReviewCards)
            /\ LevelsOf(sheet') = LevelsOf(sheet)
    /\ (LearnProcessAnswer /\ ~Answered) => SnapshotFrame
    /\ (LearnGetCtx \/ LearnAdvance \/ LearnGetLevelChange) => SnapshotFrame
    /\ (ReviewGetCtx \/ ReviewNavigate) => SnapshotFrame
    /\ LearnStart =>
        /\ LevelsOf(ReviewCards') = LevelsOf(ReviewCards)
        /\ LevelsOf(sheet') = LevelsOf(sheet)
        /\ \A i \in 1..Len(Cards') : \E r \in 1..Len(sheet) :
            sheet[r].id = Cards'[i].id /\ sheet[r].level = Cards'[i].level
    /\ (ReviewStart \/ ReviewEnd) =>
        /\ LevelsOf(Cards') = LevelsOf(Cards)
        /\ LevelsOf(sheet') = LevelsOf(sheet)
    /\ LearnEnd =>
        /\ LevelsOf(ReviewCards') = LevelsOf(ReviewCards)
        /\ \A r \in 1..Len(sheet) :
            \/ sheet'[r].level = sheet[r].level
            \/ \E i \in 1..Len(Cards) :
                Cards[i].id = sheet[r].id /\ sheet'[r].level = Cards[i].level

C3_SingleRetry ==
    /\ \A i, j \in 1..Len(Incorrect) : Incorrect[i] = Incorrect[j] => i = j
    /\ \A c \in 0..(Len(Cards) - 1) :
        Cardinality({k \in 1..Len(Answers) :
                        Answers[k].is_review /\ Answers[k].card_index = c}) <= 1

\* C4 as stated: a successful process_answer leaves current_index one greater.
C4_ProcessAnswerAdvances ==
    [][(LearnProcessAnswer /\ Answered) => Index' = Index + 1]_vars

C4_Step ==
    /\ (LearnProcessAnswer /\ Answered) =>
        LET rec   == Answers'[Len(Answers')]
            after == get_current_card_context(session')
        IN  /\ Index' = IF ~Reviewing /\ Index >= Len(Cards) THEN 0 ELSE Index
            /\ after.s = session'
            /\ after.ctx.some
            /\ after.ctx.is_review = rec.is_review
            /\ after.ctx.card.id = Cards[rec.card_index + 1].id
    /\ LearnAdvance => Index' = Index + 1

\* C4, amended: a successful process_answer does not move the cursor (it is
\* the index of the card just answered: unchanged, or 0 when the call itself
\* entered the review pass), so the next get_current_card_context resolves the
\* same card again; only advance_to_next moves the cursor, by exactly one.
C4_CursorMovesOnlyByAdvance == [][C4_Step]_vars

\* the first card was answered and the cursor still stands on it
C4_Witness ==
    /\ Active /\ ~Reviewing /\ Index = 0
    /\ Len(Answers) >= 1 /\ Answers[1].card_index = 0

C5_Step ==
    /\ (LearnProcessAnswer /\ Answered) =>
        LET rec == Answers'[Len(Answers')]
        IN  Incorrect' = IF ~rec.is_correct /\ ~rec.is_review
                         THEN Append(Incorrect, Index)
                         ELSE Incorrect
    /\ (Reviewing /\ Reviewing') => Incorrect' = Incorrect
    /\ (LearnGetCtx \/ LearnAdvance) => Incorrect' = Incorrect

\* C5: process_answer appends the first-pass cursor to incorrect_indices when
\* the answer is a first-pass miss and otherwise leaves the queue alone; while
\* is_reviewing_incorrect is true no step changes the queue; every entry of
\* the queue is an index into cards.
C5_RetryQueue ==
    /\ [](\A i \in 1..Len(Incorrect) : 0 <= Incorrect[i] /\ Incorrect[i] < Len(Cards))
    /\ [][C5_Step]_vars

\* a card was missed again in the review pass and the queue still has one entry
C5_Witness ==
    /\ Reviewing
    /\ Len(Incorrect) = 1
    /\ \E k \in 1..Len(Answers) : Answers[k].is_review /\ ~Answers[k].is_correct

\* C6: called in the first pass with current_index >= len(cards),
\* get_current_card_context enters the review pass at index 0 and returns the
\* first queued card tagged is_review when the queue is non-empty, and returns
\* None, changing nothing, when the queue is empty.
C6_PhaseTransition ==
    (Active /\ ~Reviewing /\ Index >= Len(Cards)) =>
        LET got == get_current_card_context(session)
        IN  IF Incorrect # <<>>
            THEN /\ got.s = [session EXCEPT ![LEARNING_REVIEWING_INCORRECT] = TRUE,
                                            ![LEARNING_CURRENT_INDEX] = 0]
                 /\ got.ctx.some
                 /\ got.ctx.is_review
                 /\ got.ctx.index = 0
                 /\ got.ctx.card = Cards[Incorrect[1] + 1]
            ELSE /\ got.s = session
                 /\ ~got.ctx.some
                 /\ ~got.ctx.raised

\* the review pass was just entered: cursor 0, no review answer yet
C6_Witness ==
    /\ Active /\ Reviewing /\ Index = 0
    /\ Len(Answers) >= Len(Cards)
    /\ \A k \in 1..Len(Answers) : ~Answers[k].is_review

\* C7: with an active session get_current_card_context returns None exactly
\* when the first pass is exhausted with an empty queue or the review pass is
\* exhausted; in every other state it returns a card (and never raises).
C7_Completion ==
    Active =>
        LET ctx == get_current_card_context(session).ctx
        IN  /\ ~ctx.raised
            /\ (~ctx.some) <=>
                \/ ~Reviewing /\ Index >= Len(Cards) /\ Incorrect = <<>>
                \/ Reviewing /\ Index >= Len(Incorrect)

\* the review pass is exhausted after a review answer
C7_Witness ==
    /\ Active /\ Reviewing /\ Index >= Len(Incorrect)
    /\ \E k \in 1..Len(Answers) : Answers[k].is_review

\* C8: a returned context holds cards[current_index], is_review false and
\* total len(cards) in the first pass, and cards[incorrect_indices[current_index]],
\* is_review true and total len(incorrect_indices) in the review pass, with
\* 0 <= index < total; the lookup never goes out of range.
C8_CardResolution ==
    LET got == get_current_card_context(session)
        ctx == got.ctx
        idx == sm_get(got.s, LEARNING_CURRENT_INDEX, 0)
    IN  /\ ~ctx.raised
        /\ ctx.some =>
            /\ ctx.index = idx
            /\ 0 <= ctx.index /\ ctx.index < ctx.total
            /\ ctx.is_review = sm_get(got.s, LEARNING_REVIEWING_INCORRECT, FALSE)
            /\ IF ctx.is_review
               THEN /\ ctx.total = Len(Incorrect)
                    /\ 0 <= Incorrect[idx + 1] /\ Incorrect[idx + 1] < Len(Cards)
                    /\ ctx.card = Cards[Incorrect[idx + 1] + 1]
               ELSE /\ ctx.total = Len(Cards)
                    /\ ctx.card = Cards[idx + 1]

\* the second of two different queued cards is the current card
C8_Witness ==
    /\ Active /\ Reviewing /\ Index = 1
    /\ Len(Incorrect) = 2 /\ Incorrect[1] # Incorrect[2]

\* the rows of the worksheet that are due now
DueRows ==
    {r \in 1..Len(sheet) :
        now > parse_timestamp(sheet[r].last_shown)
                + days_to_review(sheet[r].level) * SecondsPerDay * SubSecond}

\* C9: a start_session that succeeds, from whatever session state, leaves
\* cards = the selected due cards, current_index 0, answers and
\* incorrect_indices empty, is_reviewing_incorrect false,
\* original_count = len(cards) > 0 and an active session.
C9_SessionInitialisation ==
    \A read \in ReadOutcomes, p \in ShufflesNow :
        LET got    == start_session(session, sheet, now, read, p)
            after  == got.s
            staged == sm_get(after, LEARNING_CARDS, <<>>)
        IN  got.res.success =>
            /\ has_active_session(after, LEARNING_CARDS, LEARNING_CURRENT_INDEX)
            /\ \A k \in LearningKeys \ {LEARNING_LAST_LEVEL_CHANGE} : sm_has(after, k)
            /\ after[LEARNING_CURRENT_INDEX] = 0
            /\ after[LEARNING_ANSWERS] = <<>>
            /\ after[LEARNING_INCORRECT_CARDS] = <<>>
            /\ after[LEARNING_REVIEWING_INCORRECT] = FALSE
            /\ after[LEARNING_ORIGINAL_COUNT] = Len(staged)
            /\ got.res.card_count = Len(staged)
            /\ Len(staged) > 0
            /\ Len(staged) = IF Cardinality(DueRows) < MaxCardsPerSession
                             THEN Cardinality(DueRows) ELSE MaxCardsPerSession
            /\ \A i \in 1..Len(staged) : \E r \in DueRows : SameCard(staged[i], sheet[r])
            /\ \A i, j \in 1..Len(staged) : staged[i].id = staged[j].id => i = j

\* a session was started over one that had already processed an answer
C9_Witness ==
    /\ Active /\ Index = 0 /\ Answers = <<>> /\ Incorrect = <<>>
    /\ sm_has(session, LEARNING_LAST_LEVEL_CHANGE)

\* C10: when no row is due, or the card set cannot be read, start_session
\* returns success = false with a non-empty error and leaves the session
\* store as it was.
C10_NoCardsDue ==
    \A read \in ReadOutcomes, p \in ShufflesNow :
        LET got == start_session(session, sheet, now, read, p)
        IN  (read # "ok" \/ DueRows = {}) =>
                /\ ~got.res.success
                /\ got.res.error # ""
                /\ got.s = session

\* every card has been learned and written back: nothing is due
C10_Witness ==
    /\ DueRows = {}
    /\ \A r \in 1..Len(sheet) : sheet[r].cnt_shown > 0

----------------------------------------------------------------------------
C11_Step ==
    (LearnProcessAnswer /\ Answered) =>
        LET rec == Answers'[Len(Answers')]
            k   == rec.card_index + 1
        IN  /\ Cards'[k].cnt_shown = Cards[k].cnt_shown + 1
            /\ Cards'[k].last_shown = format_timestamp(now)
            /\ Cards'[k].cnt_corr_answers =
                    IF rec.is_correct
                    THEN Cards[k].cnt_corr_answers + 1
                    ELSE Cards[k].cnt_corr_answers

\* C11: a successful process_answer adds 1 to the answered card's cnt_shown,
\* sets its last_shown to the current time (as the snapshot formats it, to the
\* second), and adds 1 to cnt_corr_answers when the answer is correct and 0
\* when it is not; cnt_corr_answers <= cnt_shown holds for every card of the
\* snapshot and every row of the worksheet in every reachable state.
C11_CounterUpdate ==
    /\ [](/\ \A i \in 1..Len(Cards) : Cards[i].cnt_corr_answers <= Cards[i].cnt_shown
          /\ \A i \in 1..Len(sheet) : sheet[i].cnt_corr_answers <= sheet[i].cnt_shown)
    /\ [][C11_Step]_vars

\* a never-shown card has been answered correctly: both counters equal 1
C11_Witness ==
    \E k \in 1..Len(Answers) :
        /\ Answers[k].is_correct
        /\ Cards[Answers[k].card_index + 1].cnt_shown = 1
        /\ Cards[Answers[k].card_index + 1].cnt_corr_answers = 1

----------------------------------------------------------------------------
C12_Step ==
    (LearnProcessAnswer /\ Answered) =>
        LET rec == Answers'[Len(Answers')]
            pos == IF rec.is_review THEN Incorrect[Index' + 1] ELSE Index'
        IN  /\ rec.card_index = pos
            /\ rec.is_review = Reviewing'
            /\ Len(Cards') = Len(Cards)
            /\ \A i \in 1..Len(Cards) : i # pos + 1 => Cards'[i] = Cards[i]
            /\ Cards'[pos + 1].id = Cards[pos + 1].id
            /\ Cards'[pos + 1].word = Cards[pos + 1].word
            /\ Cards'[pos + 1].translation = Cards[pos + 1].translation
            /\ Cards'[pos + 1] # Cards[pos + 1]

\* C12: process_answer stores the updated card at the answered card's own
\* position of cards (current_index in the first pass,
\* incorrect_indices[current_index] in the review pass); every other card is
\* unchanged, the answered card keeps its id, word and translation, and
\* len(cards) = original_count in every state of an active session.
C12_SnapshotWriteInPlace ==
    /\ [](Active => /\ sm_has(session, LEARNING_ORIGINAL_COUNT)
                   /\ Len(Cards) = session[LEARNING_ORIGINAL_COUNT])
    /\ [][C12_Step]_vars

\* a review answer was written at a position other than the cursor
C12_Witness ==
    /\ Active /\ Reviewing
    /\ \E k \in 1..Len(Answers) :
        /\ Answers[k].is_review
        /\ Answers[k].card_index # Index
        /\ Cards[Answers[k].card_index + 1].cnt_shown > 0

----------------------------------------------------------------------------
C13_Step ==
    /\ (LearnProcessAnswer /\ Answered) =>
        LET rec == Answers'[Len(Answers')]
        IN  /\ Answers' = Append(Answers, rec)
            /\ rec.user_answer \in UserAnswers
            /\ rec.correct_answer = Cards[rec.card_index + 1].word
            /\ rec.is_correct =
                    (normalized(rec.user_answer) = normalized(rec.correct_answer))
            /\ rec.is_review = Reviewing'
    /\ (LearnProcessAnswer /\ ~Answered) => Answers' = Answers
    /\ (LearnGetCtx \/ LearnAdvance \/ Tick) => Answers' = Answers
    \* any other change empties the log, and comes with a session that is
    \* gone (end_session) or fresh (start_session)
    /\ \/ Answers' = Answers
       \/ LearnProcessAnswer /\ Answered
       \/ /\ Answers' = <<>>
          /\ \/ ~Active'
             \/ Index' = 0 /\ ~Reviewing' /\ Incorrect' = <<>>

\* C13: a successful process_answer appends exactly one record, whose
\* is_correct is the outcome of comparing the answer with the card's word and
\* whose is_review is the phase flag at the time of the answer; a failed
\* process_answer leaves the log as it is; between start_session and
\* end_session no step removes, reorders or rewrites a record.
C13_AnswerLogAppendOnly ==
    /\ [](\A user_answer \in UserAnswers :
            LET got == process_answer(session, user_answer, now)
            IN  ~got.res.success => got.s = session)
    /\ [][C13_Step]_vars

\* the log holds a first-pass miss followed by a review answer
C13_Witness ==
    /\ Len(Answers) = 2
    /\ ~Answers[1].is_review /\ ~Answers[1].is_correct
    /\ Answers[2].is_review

----------------------------------------------------------------------------
C14_Step ==
    /\ (LearnGetCtx \/ LearnProcessAnswer \/ LearnAdvance \/ LearnGetLevelChange)
            => sheet' = sheet
    /\ (LearnStart \/ ReviewStart \/ ReviewGetCtx \/ ReviewNavigate \/ ReviewEnd)
            => sheet' = sheet
    /\ sheet' # sheet => LearnEnd /\ sm_has(session, LEARNING_CARDS)
    /\ LearnEnd => ~sm_has(session', LEARNING_CARDS)

\* C14: the worksheet is written only by end_session: no step of
\* get_current_card_context, process_answer, advance_to_next, get_level_change
\* (or of start_session and the review operations) changes it, and an
\* end_session that finds no staged session (as after an earlier end_session)
\* attempts no write and reports update_successful = false.
C14_SingleWritePoint ==
    /\ [](~sm_has(session, LEARNING_CARDS) =>
            \A early \in BOOLEAN, user \in BOOLEAN, store_ok \in BOOLEAN :
                LET got == end_session(session, sheet, early, user, store_ok)
                IN  ~got.res.update_successful /\ got.rows = sheet)
    /\ [][C14_Step]_vars

\* a session has been written back and ended
C14_Witness ==
    /\ ~sm_has(session, LEARNING_CARDS)
    /\ sheet # InitSheet

----------------------------------------------------------------------------
\* C15: end_session returns a summary and clears the learn session whether the
\* write-back succeeds, fails (update_successful = false, worksheet unchanged)
\* or cannot be attempted (no user spreadsheet, no staged cards): afterwards
\* no learning key is left, so has_active_session() is false and get_state()
\* is None; the keys of the other namespaces are kept.
C15_EndSessionAlwaysTerminates ==
    \A early \in BOOLEAN, user \in BOOLEAN, store_ok \in BOOLEAN :
        LET got == end_session(session, sheet, early, user, store_ok)
        IN  /\ ~has_active_session(got.s, LEARNING_CARDS, LEARNING_CURRENT_INDEX)
            /\ \A k \in LearningKeys : ~sm_has(got.s, k)
            /\ \A k \in DOMAIN session \ LearningKeys :
                    sm_has(got.s, k) /\ got.s[k] = session[k]
            /\ got.res.update_successful = (Active /\ user /\ store_ok)
            /\ ~got.res.update_successful => got.rows = sheet
            /\ got.res.total_answered = Len(Answers)
            /\ got.res.ended_early = early

\* a session with an answer was ended although its write-back failed
C15_Witness ==
    /\ answered > 0
    /\ sheet = InitSheet
    /\ \A k \in LearningKeys : ~sm_has(session, k)

----------------------------------------------------------------------------
(* A worksheet with an empty row between the card rows *)

InitSheetGap ==
    << Row(1, <<"a">>, 0, 0, 0, 0),
       Row(0, <<>>, 0, 0, 0, 0),
       Row(2, <<"B">>, 9, 8, MaxLevel, StartSeconds - 61 * SecondsPerDay),
       Row(3, <<"A", " ">>, 1, 1, 1, StartSeconds - SecondsPerDay) >>

InitGap ==
    /\ session = <<>>
    /\ sheet = InitSheetGap
    /\ now = StartSeconds * SubSecond + 1
    /\ answered = 0
    /\ ticks = 0
    /\ writers = <<>>

SpecGap == InitGap /\ [][Next]_vars

\* C16: in every reachable session state, an end_session (early or not) whose
\* write-back succeeds leaves, in every worksheet row of a snapshot card, the
\* snapshot's cnt_shown, cnt_corr_answers, level and last_shown (and the row's
\* other cells as they were), and leaves every other row as it was.
C16_WriteBackConsistent ==
    Active =>
        \A early \in BOOLEAN :
            LET got == end_session(session, sheet, early, TRUE, TRUE)
            IN  /\ got.res.update_successful
                /\ Len(got.rows) = Len(sheet)
                /\ \A r \in 1..Len(sheet) :
                    LET hit == {i \in 1..Len(Cards) : Cards[i].id = sheet[r].id}
                    IN  IF hit = {}
                        THEN got.rows[r] = sheet[r]
                        ELSE \E i \in hit :
                                got.rows[r] =
                                    [sheet[r] EXCEPT
                                        !.cnt_shown = Cards[i].cnt_shown,
                                        !.cnt_corr_answers = Cards[i].cnt_corr_answers,
                                        !.level = Cards[i].level,
                                        !.last_shown = Cards[i].last_shown]

----------------------------------------------------------------------------
\* C17: with n cards staged and k answers processed (first-pass and review
\* answers alike), end_session(early = true) reports cards_remaining = n - k,
\* whether or not the write-back succeeds.
C17_EarlyEndAccounting ==
    Active =>
        \A user \in BOOLEAN, store_ok \in BOOLEAN :
            LET got == end_session(session, sheet, TRUE, user, store_ok)
            IN  /\ got.res.ended_early
                /\ got.res.original_count = Len(Cards)
                /\ got.res.total_answered = Len(Answers)
                /\ got.res.cards_remaining = Len(Cards) - Len(Answers)

\* two cards staged, one first-pass and one review answer processed
C17_Witness ==
    /\ Active /\ Len(Cards) = 2 /\ Len(Answers) = 2
    /\ Answers[2].is_review

----------------------------------------------------------------------------
(* Card selection over a family of card sets *)

MaxRows == 3

\* the statistics a worksheet row may hold: never shown; overdue by a day;
\* overdue by eight days; shown yesterday at the top level; due after
\* exactly two days and one second more; due two days ago to the second
RowStats ==
    { <<0, 0, 0, 0>>,
      <<3, 2, 2, StartSeconds - 6 * SecondsPerDay>>,
      <<4, 1, 1, StartSeconds - 10 * SecondsPerDay>>,
      <<9, 9, MaxLevel, StartSeconds - SecondsPerDay>>,
      <<5, 4, 2, StartSeconds - 3 * SecondsPerDay + 1>>,
      <<2, 1, 1, StartSeconds - 4 * SecondsPerDay>> }

\* the worksheets of MaxRows rows with ids 1..MaxRows
CardSets ==
    { [i \in 1..MaxRows |-> Row(i, <<"a">>, st[i][1], st[i][2], st[i][3], st[i][4])] :
        st \in [1..MaxRows -> RowStats] }

\* the limits a caller may pass: unset, 0, and up to one more than the rows
Limits == {NoLimit} \cup (0..(MaxRows + 1))

InitCards ==
    /\ session = <<>>
    /\ sheet \in CardSets
    /\ now = StartSeconds * SubSecond + 1
    /\ answered = 0
    /\ ticks = 0
    /\ writers = <<>>

NextCards ==
    \/ Tick
    \/ LearnStart
    \/ LearnEnd

SpecCards == InitCards /\ [][NextCards]_vars

\* the cards of the worksheet, and those of them that are due now
SheetCards == read_cards_from_worksheet(sheet)

DueCards ==
    {c \in {SheetCards[i] : i \in 1..Len(SheetCards)} :
        now > c.last_shown + days_to_review(c.level) * SecondsPerDay * SubSecond}

\* C18: with at least N >= 1 due cards, get_cards_to_review(limit = N) returns
\* N different due cards none of which is due later (by
\* seconds_to_next_review) than a due card left out, and returns the same set
\* of cards whatever the shuffle does.
C18_SelectionDeterminism ==
    \A N \in 1..(MaxRows + 1) :
        Cardinality(DueCards) >= N =>
            \A p \in shuffles(N) :
                LET got    == get_cards_to_review(SheetCards, N, FALSE, now, p)
                    chosen == {got[i] : i \in 1..Len(got)}
                IN  /\ Len(got) = N
                    /\ Cardinality(chosen) = N
                    /\ chosen \subseteq DueCards
                    /\ \A c \in chosen, d \in DueCards \ chosen :
                        seconds_to_next_review(c, now) <= seconds_to_next_review(d, now)
                    \* the same set as under one fixed shuffle, so the same
                    \* set under any two
                    /\ LET q     == CHOOSE r \in shuffles(N) : TRUE
                           other == get_cards_to_review(SheetCards, N, FALSE, now, q)
                       IN  chosen = {other[i] : i \in 1..Len(other)}

\* more cards are due than were staged, and the staged order is not the
\* order of urgency
C18_Witness ==
    /\ Active
    /\ Cardinality(DueCards) > Len(Cards)
    /\ Len(Cards) = MaxCardsPerSession
    /\ Cards # [i \in 1..Len(Cards) |->
                serialize_card(cards_before_shuffle(SheetCards, MaxCardsPerSession,
                                                    FALSE, now)[i])]

----------------------------------------------------------------------------
\* C19: for every limit >= 0 that is passed, get_cards_to_review returns
\* min(limit, number of due cards) cards; with the limit unset it returns all
\* the due cards.
C19_LimitTruncation ==
    \A limit \in Limits :
        LET before == cards_before_shuffle(SheetCards, limit, FALSE, now)
            due    == Cardinality(DueCards)
        IN  \A p \in shuffles(Len(before)) :
                LET got == get_cards_to_review(SheetCards, limit, FALSE, now, p)
                IN  Len(got) = IF limit = NoLimit THEN due
                               ELSE IF limit < due THEN limit ELSE due

----------------------------------------------------------------------------
\* C20: cards_to_review(ignore_unshown = false) returns, in worksheet order,
\* exactly the cards with now > last_shown + interval(level), every
\* never-shown card among them; cards_to_review(ignore_unshown = true) returns
\* exactly those of them with cnt_shown > 0; every card a learn start_session
\* stages is due at the moment of selection.
C20_DueFilter ==
    /\ cards_to_review(SheetCards, FALSE, now)
            = SelectSeq(SheetCards, LAMBDA c : c \in DueCards)
    /\ cards_to_review(SheetCards, TRUE, now)
            = SelectSeq(SheetCards, LAMBDA c : c \in DueCards /\ c.cnt_shown > 0)
    /\ \A i \in 1..Len(SheetCards) :
            SheetCards[i].cnt_shown = 0 => SheetCards[i] \in DueCards
    /\ \A p \in ShufflesNow :
            LET got    == start_session(session, sheet, now, "ok", p)
                staged == sm_get(got.s, LEARNING_CARDS, <<>>)
            IN  got.res.success =>
                    \A i \in 1..Len(staged) :
                        \E c \in DueCards : staged[i] = serialize_card(c)

\* a never-shown card is staged while another card falls due at this very
\* instant and is not
C20_Witness ==
    /\ Active
    /\ \E i \in 1..Len(Cards) : Cards[i].cnt_shown = 0
    /\ \E i \in 1..Len(SheetCards) :
        /\ now = SheetCards[i].last_shown
                    + days_to_review(SheetCards[i].level) * SecondsPerDay * SubSecond
        /\ \A j \in 1..Len(Cards) : Cards[j].id # SheetCards[i].id

----------------------------------------------------------------------------
(* One learn session from staging to its summary: the clock stands still
   and the session is not restarted, so the answer log grows up to MaxLog
   records *)

MaxLog == 3

\* the session start_session stages from the worksheet at the start
InitSession ==
    /\ sheet = InitSheet
    /\ now = StartSeconds * SubSecond + 1
    /\ \E p \in shuffles(Len(cards_before_shuffle(
                    read_cards_from_worksheet(InitSheet),
                    MaxCardsPerSession, FALSE, StartSeconds * SubSecond + 1))) :
        session = start_session(<<>>, InitSheet,
                                StartSeconds * SubSecond + 1, "ok", p).s
    /\ answered = 0
    /\ ticks = 0
    /\ writers = <<>>

\* process_answer, up to MaxLog answers
SessionProcessAnswer ==
    /\ answered < MaxLog
    /\ \E user_answer \in UserAnswers :
        LET got == process_answer(session, user_answer, now)
        IN  /\ session' = got.s
            /\ answered' = IF got.res.success THEN answered + 1 ELSE answered
    /\ UNCHANGED <<sheet, now, ticks, writers>>

NextSession ==
    \/ LearnGetCtx
    \/ SessionProcessAnswer
    \/ LearnAdvance
    \/ LearnEnd

SpecSession == InitSession /\ [][NextSession]_vars

\* the answers of the log that were judged correct
CorrectIn(answers) == Cardinality({i \in 1..Len(answers) : answers[i].is_correct})

\* a / b rounded to the nearest integer, a half to the even one
Round(a, b) ==
    LET q == a \div b
        r == a % b
    IN  IF 2 * r > b \/ (2 * r = b /\ q % 2 = 1) THEN q + 1 ELSE q

\* C21: the accuracy reported for a log of n answers with k correct is 0
\* when n = 0, 100 when k = n > 0, and round(k / n * 100) otherwise, always
\* an integer in 0..100.  (int(correct / total * 100) truncates: 2 of 3
\* gives 66.)
C21_AccuracyRounded ==
    LET n   == Len(Answers)
        k   == CorrectIn(Answers)
        acc == calculate_session_stats(Answers).accuracy_percentage
    IN  /\ acc \in 0..100
        /\ n = 0 => acc = 0
        /\ (n > 0 /\ k = n) => acc = 100
        /\ n > 0 => acc = Round(k * 100, n)

\* what end_session would return in the current state
Summary(early, user, store_ok) == end_session(session, sheet, early, user, store_ok).res

\* a process_answer that succeeded adds one to total_answered, one to
\* correct_answers when the answer was judged correct, and one to
\* review_count when the retry pass was on as the answer was processed;
\* any other step of a running session leaves the counts alone
C22_Step ==
    LET before == calculate_session_stats(Answers)
        after  == calculate_session_stats(Answers')
        total  == after.total_answered - before.total_answered
        right  == after.correct_answers - before.correct_answers
        review == after.review_count - before.review_count
    IN  IF Answered
        THEN LET rec == Answers'[Len(Answers')]
             IN  /\ answered' = answered + 1
                 /\ total = 1
                 /\ right = (IF check_answer(rec.user_answer, rec.correct_answer)
                             THEN 1 ELSE 0)
                 /\ review = (IF Reviewing' THEN 1 ELSE 0)
        ELSE Active' => (total = 0 /\ right = 0 /\ review = 0)

\* C22: the summary of end_session has total_answered = the number of
\* process_answer calls of the session that succeeded, correct_answers =
\* the number of those judged correct, review_count = the number of those
\* processed in the retry pass, and first_attempt_count = total_answered -
\* review_count.
C22_SummaryCounts ==
    /\ [](\A early \in BOOLEAN, user \in BOOLEAN, store_ok \in BOOLEAN :
            LET res == Summary(early, user, store_ok)
                one == calculate_session_stats(Answers)
            IN  /\ Active => res.total_answered = answered
                /\ answered = 0 => /\ res.correct_answers = 0
                                   /\ res.review_count = 0
                /\ res.first_attempt_count = res.total_answered - res.review_count
                \* whatever the way the session is ended, the summary holds the
                \* counts of the answer log
                /\ res.total_answered = one.total_answered
                /\ res.correct_answers = one.correct_answers
                /\ res.review_count = one.review_count)
    /\ [][C22_Step]_vars

\* three answers, the third one a retry, two of them correct
C22_Witness ==
    /\ Active
    /\ answered = 3
    /\ Summary(FALSE, TRUE, TRUE).total_answered = 3
    /\ Summary(FALSE, TRUE, TRUE).correct_answers = 2
    /\ Summary(FALSE, TRUE, TRUE).review_count = 1
    /\ Summary(FALSE, TRUE, TRUE).first_attempt_count = 2

\* the log opens with the card at index 0 answered correctly and the card
\* at index 1 answered incorrectly, both in the first pass of two cards
FirstPassOfScenario ==
    /\ Len(Cards) = 2
    /\ Len(Answers) >= 2
    /\ Answers[1].card_index = 0 /\ Answers[1].is_correct /\ ~Answers[1].is_review
    /\ Answers[2].card_index = 1 /\ ~Answers[2].is_correct /\ ~Answers[2].is_review

\* C23: in a session of two cards where the card at index 0 is answered
\* correctly and the card at index 1 incorrectly, incorrect_indices = [1]
\* at the end of the first pass and the retry pass presents exactly the
\* card at index 1; once that is answered correctly the session is
\* complete and end_session reports total_answered = 3, correct_answers =
\* 2, review_count = 1, first_attempt_count = 2 and accuracy = 67.
C23_ScenarioTrace ==
    /\ (FirstPassOfScenario /\ Len(Answers) = 2 /\ Index = 2 /\ ~Reviewing) =>
            LET got == get_current_card_context(session)
            IN  /\ Incorrect = <<1>>
                /\ got.ctx.some
                /\ got.ctx.is_review
                /\ got.ctx.card = PyIndex(Cards, 1)
                /\ got.ctx.index = 0
                /\ got.ctx.total = 1
    /\ (/\ FirstPassOfScenario /\ Len(Answers) = 3 /\ Reviewing /\ Index = 1
        /\ Answers[3].card_index = 1 /\ Answers[3].is_correct
        /\ Answers[3].is_review) =>
            /\ get_current_card_context(session).ctx = None
            /\ \A early \in BOOLEAN, user \in BOOLEAN, store_ok \in BOOLEAN :
                LET res == Summary(early, user, store_ok)
                IN  /\ res.total_answered = 3
                    /\ res.correct_answers = 2
                    /\ res.review_count = 1
                    /\ res.first_attempt_count = 2
                    /\ res.accuracy_percentage = 67

----------------------------------------------------------------------------
(* The browse session as the claims read it *)

ReviewActive == has_active_session(session, REVIEW_CARDS, REVIEW_CURRENT_INDEX)
ReviewIndex == sm_get(session, REVIEW_CURRENT_INDEX, 0)

\* C24: in a browse session of T >= 1 cards navigate('next') moves the
\* index to index + 1, and from T - 1 to 0; navigate('prev') moves it to
\* index - 1, and from 0 to T - 1; the index stays within 0..T-1, so
\* get_current_card_context never has to reset it; a navigate with an
\* unknown direction or without a session returns false and changes
\* nothing.
C24_CircularNavigation ==
    LET T == Len(ReviewCards)
    IN  /\ ReviewActive =>
            /\ T >= 1
            /\ 0 <= ReviewIndex /\ ReviewIndex < T
            /\ review_get_current_card_context(session).s = session
            /\ LET next == navigate(session, "next")
                   prev == navigate(session, "prev")
               IN  /\ next.ok /\ prev.ok
                   /\ next.s = [session EXCEPT ![REVIEW_CURRENT_INDEX] =
                                    IF ReviewIndex = T - 1 THEN 0 ELSE ReviewIndex + 1]
                   /\ prev.s = [session EXCEPT ![REVIEW_CURRENT_INDEX] =
                                    IF ReviewIndex = 0 THEN T - 1 ELSE ReviewIndex - 1]
        /\ \A direction \in Directions :
            (~ReviewActive \/ direction \notin {"next", "prev"}) =>
                /\ ~navigate(session, direction).ok
                /\ navigate(session, direction).s = session

\* 'prev' has wrapped from the first card to the last one
C24_Witness ==
    /\ ReviewActive
    /\ Len(ReviewCards) >= 2
    /\ ReviewIndex = Len(ReviewCards) - 1

\* the rows of the worksheet that hold a card, in sheet order
StoreRows == SelectSeq(sheet, LAMBDA r : ~skipped(r) /\ ~raises(r))

\* a call of the browse service other than start_session leaves the staged
\* cards and the worksheet as they are
C25_Step ==
    (ReviewNavigate \/ ReviewGetCtx \/ ReviewEnd) =>
        /\ sheet' = sheet
        /\ ReviewActive' => /\ ReviewActive
                            /\ ReviewCards' = ReviewCards

\* C25: a browse start_session stages all cards of the set in store order,
\* with no due filter, no limit and no shuffle; after it no navigate,
\* get_current_card_context or end_session changes a staged card, the
\* number or order of the staged cards, or the external card store.
C25_BrowseReadOnly ==
    /\ [](LET got == review_start_session(session, sheet, "ok")
          IN  IF StoreRows = <<>>
              THEN ~got.res.success /\ got.s = session
              ELSE /\ got.res.success
                   /\ got.res.card_count = Len(StoreRows)
                   /\ Len(got.s[REVIEW_CARDS]) = Len(StoreRows)
                   /\ \A i \in 1..Len(StoreRows) :
                        SameCard(got.s[REVIEW_CARDS][i], StoreRows[i])
                   /\ got.s[REVIEW_CURRENT_INDEX] = 0)
    /\ [][C25_Step]_vars

\* a browse session over more cards than a learn session takes, one of them
\* not due, after a navigate
C25_Witness ==
    /\ ReviewActive
    /\ Len(ReviewCards) > MaxCardsPerSession
    /\ \E i \in 1..Len(ReviewCards) :
        ~is_delayed(deserialize_card(ReviewCards[i]), now)
    /\ ReviewIndex > 0

----------------------------------------------------------------------------
(* The worksheet functions of gsheet.py over worksheets of any contents:
   rows that hold a card, rows the read skips and rows it cannot parse *)

\* a new card; a card in training; a row without an id; a row of two cells;
\* an id that is no number; a counter that is no number; a level above 7
StoreRowKinds ==
    { Row(1, <<"a">>, 0, 0, 0, 0),
      Row(2, <<"b">>, 3, 2, 2, StartSeconds - 6 * SecondsPerDay),
      Row(0, <<>>, 0, 0, 0, 0),
      [Row(3, <<"c">>, 0, 0, 0, 0) EXCEPT !.cols = 2],
      Row(NotANumber, <<"d">>, 0, 0, 0, 0),
      Row(3, <<"c">>, NotANumber, 0, 1, 0),
      Row(2, <<"b">>, 1, 1, MaxLevel + 1, 0) }

\* the worksheets of up to MaxRows rows
Worksheets == UNION { [1..n -> StoreRowKinds] : n \in 0..MaxRows }

\* the cards of a session of cards 1 and 2 after their answers, as
\* _batch_update_cards hands them to update_spreadsheet
AnsweredCard(id, shown, corr, level) ==
    [id |-> id, word |-> <<"a">>, translation |-> "t",
     cnt_shown |-> shown, cnt_corr_answers |-> corr, level |-> level,
     last_shown |-> StartSeconds * SubSecond + 1]

CardLists ==
    LET c1 == AnsweredCard(1, 1, 1, 1)
        c2 == AnsweredCard(2, 4, 2, 1)
    IN  { <<>>, <<c1>>, <<c2>>, <<c1, c2>>, <<c2, c1>> }

InitStore ==
    /\ session = <<>>
    /\ sheet \in Worksheets
    /\ now = StartSeconds * SubSecond + 1
    /\ answered = 0
    /\ ticks = 0
    /\ writers = <<>>

\* update_spreadsheet(worksheet_name, cards)
WriteCards ==
    /\ \E cards \in CardLists : sheet' = update_spreadsheet(sheet, cards)
    /\ UNCHANGED <<session, now, answered, ticks, writers>>

NextStore ==
    \/ WriteCards
    \/ ReviewStart

SpecStore == InitStore /\ [][NextStore]_vars

\* the row holds a card: read_cards_from_worksheet returns one for it
HoldsCard(row) == ~skipped(row) /\ ~raises(row)

\* C26: for any worksheet and any list of cards, update_spreadsheet writes
\* cnt_shown, cnt_corr_answers, level and last_shown of each given card
\* into the row of that card's id, and leaves the content columns of every
\* row and the whole of every row whose id is not in the list as they were.
C26_WriteBackById ==
    \A cards \in CardLists :
        LET after == update_spreadsheet(sheet, cards)
        IN  /\ Len(after) = Len(sheet)
            /\ \A r \in 1..Len(sheet) :
                LET given == {j \in 1..Len(cards) : cards[j].id = sheet[r].id}
                IN  /\ after[r].id = sheet[r].id
                    /\ after[r].word = sheet[r].word
                    /\ after[r].translation = sheet[r].translation
                    /\ (given # {} /\ HoldsCard(sheet[r])) =>
                            \A j \in given :
                                /\ after[r].cnt_shown = cards[j].cnt_shown
                                /\ after[r].cnt_corr_answers = cards[j].cnt_corr_answers
                                /\ after[r].level = cards[j].level
                                /\ after[r].last_shown = format_timestamp(cards[j].last_shown)
                    /\ given = {} => after[r] = sheet[r]

\* C27: for any worksheet and any list of cards, a second update_spreadsheet
\* with the same list leaves the worksheet as the first one left it.
C27_WriteBackIdempotent ==
    \A cards \in CardLists :
        update_spreadsheet(update_spreadsheet(sheet, cards), cards)
            = update_spreadsheet(sheet, cards)

\* a row that can be parsed into a Card: five cells or more, a numeric id
\* that is not blank, numeric counters and a level in 0..7
WellFormedRow(row) ==
    /\ row.cols >= 5
    /\ row.id >= 1
    /\ row.cnt_shown >= 0
    /\ row.cnt_corr_answers >= 0
    /\ row.level >= 0 /\ row.level <= MaxLevel

\* C28: read_cards_from_worksheet skips every row that cannot be parsed
\* into a Card (blank id, fewer than 5 cells, a non-numeric id or counter, a
\* level outside 0..7) and returns a Card for every other row, in sheet
\* order: a bad row neither fails the read nor drops a well-formed row.
C28_MalformedRowsSkipped ==
    LET cards == read_cards_from_worksheet(sheet)
        good  == SelectSeq(sheet, WellFormedRow)
    IN  /\ Len(cards) = Len(good)
        /\ \A i \in 1..Len(good) :
            /\ cards[i].id = good[i].id
            /\ cards[i].word = good[i].word
            /\ cards[i].translation = good[i].translation
            /\ cards[i].cnt_shown = good[i].cnt_shown
            /\ cards[i].cnt_corr_answers = good[i].cnt_corr_answers
            /\ cards[i].level = good[i].level
            /\ format_timestamp(cards[i].last_shown) = good[i].last_shown

\* a browse session staged the two cards around a row that raises
C28_Witness ==
    /\ Len(sheet) = 3
    /\ WellFormedRow(sheet[1]) /\ WellFormedRow(sheet[3])
    /\ ~skipped(sheet[2]) /\ raises(sheet[2])
    /\ ReviewActive
    /\ Len(ReviewCards) = 2
    /\ ReviewCards[1].id = sheet[1].id
    /\ ReviewCards[2].id = sheet[3].id

\* C29: process_answer called when no learn session is active, never
\* started or already ended, returns success = false with an error and
\* raises nothing; it appends no answer record, changes no card and queues
\* no retry.
C29_StaleSessionAccess ==
    ~Active =>
        \A user_answer \in UserAnswers :
            LET got == process_answer(session, user_answer, now)
            IN  /\ ~got.res.raised
                /\ ~got.res.success
                /\ got.res.error = "No active session"
                /\ got.s = session
                /\ sm_get(got.s, LEARNING_ANSWERS, <<>>) = <<>>
                /\ sm_get(got.s, LEARNING_INCORRECT_CARDS, <<>>) = <<>>
                /\ ~sm_has(got.s, LEARNING_CARDS)

\* the session has ended after an answer was processed
C29_Witness ==
    /\ ~Active
    /\ answered > 0

\* the card as it would be at another level
AtLevel(card, l) == [card EXCEPT !.level = l]

\* C30: the interval table is defined for every level 0..7, gives 0 days at
\* level 0 and grows with the level, so of two cards with the same
\* last_shown the one at the higher level never becomes due earlier than
\* the one at the lower level.
C30_IntervalTableShape ==
    /\ \A l \in 0..MaxLevel : days_to_review(l) \in Nat
    /\ days_to_review(0) = 0
    /\ \A l \in 0..(MaxLevel - 1) : days_to_review(l) < days_to_review(l + 1)
    /\ \A i \in 1..Len(SheetCards) : \A l, h \in 0..MaxLevel :
        l < h =>
            /\ next_review(AtLevel(SheetCards[i], l))
                    <= next_review(AtLevel(SheetCards[i], h))
            /\ is_delayed(AtLevel(SheetCards[i], h), now)
                    => is_delayed(AtLevel(SheetCards[i], l), now)

\* a card shown before that is due at its own level and would not yet be
\* due one level higher
C30_Witness ==
    \E i \in 1..Len(SheetCards) :
        /\ SheetCards[i].cnt_shown > 0
        /\ SheetCards[i].level < MaxLevel
        /\ is_delayed(SheetCards[i], now)
        /\ ~is_delayed(AtLevel(SheetCards[i], SheetCards[i].level + 1), now)
        /\ ReviewActive

----------------------------------------------------------------------------
\* the phase of the learn session: 0 INIT (nothing staged), 1 FIRST_PASS,
\* 2 REVIEW_PASS, 3 COMPLETE (get_current_card_context has no card left)
Phase ==
    IF ~Active THEN 0
    ELSE IF Reviewing
    THEN IF Index < Len(Incorrect) THEN 2 ELSE 3
    ELSE IF Index < Len(Cards) \/ Incorrect # <<>> THEN 1 ELSE 3

\* the step left a fresh session (start_session) or none (end_session)
SessionReset ==
    /\ sm_get(session', LEARNING_ANSWERS, <<>>) = <<>>
    /\ \/ ~Active'
       \/ Index' = 0 /\ ~Reviewing' /\ Incorrect' = <<>>

\* a step that is no start_session or end_session moves the phase forward
\* only, keeps the retry flag once it is set, and in the retry pass keeps
\* the queue and never moves the cursor back
C31_Step ==
    \/ SessionReset
    \/ /\ Phase' >= Phase
       /\ Reviewing => /\ Reviewing'
                       /\ Incorrect' = Incorrect
                       /\ Index' >= Index

\* C31: within one learn session the phase only moves forward, INIT ->
\* FIRST_PASS -> REVIEW_PASS -> COMPLETE; once is_reviewing_incorrect is
\* true only a new start_session or end_session resets it, so the first
\* pass is never re-entered and the retry pass is traversed at most once.
C31_PhaseOrderMonotone == [][C31_Step]_vars

\* the retry pass has been traversed to its end
C31_Witness ==
    /\ Active
    /\ Reviewing
    /\ Incorrect # <<>>
    /\ Index >= Len(Incorrect)
    /\ Phase = 3

----------------------------------------------------------------------------
\* the part of the session store under one namespace
Namespace(s, namespace) ==
    [k \in (DOMAIN s) \cap NamespaceKeys(namespace) |-> s[k]]

\* the session stores the learn operations can leave from the current state
AfterLearnOp ==
    { start_session(session, sheet, now, read, p).s :
        read \in ReadOutcomes, p \in ShufflesNow }
    \cup { get_current_card_context(session).s, advance_to_next(session) }
    \cup { process_answer(session, user_answer, now).s : user_answer \in UserAnswers }
    \cup { end_session(session, sheet, early, user, store_ok).s :
            early \in BOOLEAN, user \in BOOLEAN, store_ok \in BOOLEAN }

\* the session stores the browse operations can leave from the current state
AfterReviewOp ==
    { review_start_session(session, sheet, read).s : read \in ReadOutcomes }
    \cup { navigate(session, direction).s : direction \in Directions }
    \cup { review_get_current_card_context(session).s, review_end_session(session) }

\* C32: in any interleaving of learn and browse operations no learn
\* operation changes the browse state (cards, index, tab, gid) and no
\* browse operation changes the learn state; ending one session leaves the
\* other one active.
C32_SessionsIndependent ==
    /\ \A s \in AfterLearnOp : Namespace(s, "review") = Namespace(session, "review")
    /\ \A s \in AfterReviewOp : Namespace(s, "learning") = Namespace(session, "learning")
    /\ ReviewActive =>
         \A early \in BOOLEAN, user \in BOOLEAN, store_ok \in BOOLEAN :
            has_active_session(end_session(session, sheet, early, user, store_ok).s,
                               REVIEW_CARDS, REVIEW_CURRENT_INDEX)
    /\ Active =>
         has_active_session(review_end_session(session),
                            LEARNING_CARDS, LEARNING_CURRENT_INDEX)

\* a learn session with an answer and a browse session that has moved on
\* are staged side by side
C32_Witness ==
    /\ Active /\ Answers # <<>>
    /\ ReviewActive /\ ReviewIndex > 0

----------------------------------------------------------------------------
\* the positions (from 1) of the staged cards that have an answer in the log
AnsweredPositions ==
    {i \in 1..Len(Cards) : \E j \in 1..Len(Answers) : Answers[j].card_index = i - 1}

\* the time of the last answer to the staged card at position i
LastAnswerTime(i) ==
    LET js == {j \in 1..Len(Answers) : Answers[j].card_index = i - 1}
    IN  Answers[CHOOSE j \in js : \A k \in js : k <= j].timestamp

\* the interval of a level, in ticks
IntervalTicks(l) == days_to_review(l) * SecondsPerDay * SubSecond

\* get_cards_to_review over the worksheet rows at time t returns the card id
ReturnedAt(rows, id, t) ==
    LET got == cards_before_shuffle(read_cards_from_worksheet(rows), NoLimit, FALSE, t)
    IN  \E k \in 1..Len(got) : got[k].id = id

\* C33: after a session whose write-back succeeds, a card whose last answer
\* left it at level L >= 1 is not returned by get_cards_to_review until more
\* than interval_days(L) days have passed since that answer and is due from
\* then on; a card left at level 0 is due as soon as any time has passed.
C33_SchedulingAcrossSessions ==
    \A early \in BOOLEAN :
        LET got == end_session(session, sheet, early, TRUE, TRUE)
        IN  (Active /\ got.res.update_successful) =>
            \A i \in AnsweredPositions :
                LET ts == LastAnswerTime(i)
                    L  == Cards[i].level
                    D  == IntervalTicks(L)
                IN  \A T \in {ts + D - 1, ts + D, ts + D + 1, ts + D + SubSecond} :
                        T > now =>
                            IF L >= 1
                            THEN ReturnedAt(got.rows, Cards[i].id, T) <=> (T - ts > D)
                            ELSE ReturnedAt(got.rows, Cards[i].id, T)

----------------------------------------------------------------------------
(* The route flow of learn mode: /card shows the current card, /answer
   processes the answer, /feedback shows the outcome and /next moves on *)

\* worksheets of one to MaxRows new cards
FlowSheets ==
    { [i \in 1..n |-> Row(i, <<"a">>, 0, 0, 0, 0)] : n \in 1..MaxRows }

\* /learn/start has staged a session
InitFlow ==
    /\ sheet \in FlowSheets
    /\ now = StartSeconds * SubSecond + 1
    /\ \E p \in shuffles(Len(cards_before_shuffle(
                    read_cards_from_worksheet(sheet),
                    MaxCardsPerSession, FALSE, StartSeconds * SubSecond + 1))) :
        session = start_session(<<>>, sheet, StartSeconds * SubSecond + 1, "ok", p).s
    /\ answered = 0
    /\ ticks = 0
    /\ writers = <<>>

\* one round of the flow: card, answer, feedback, next_card
FlowRound ==
    LET shown == get_current_card_context(session)
    IN  /\ shown.ctx.some
        /\ \E user_answer \in UserAnswers :
            LET got      == process_answer(shown.s, user_answer, now)
                feedback == get_current_card_context(got.s)
                change   == get_level_change(feedback.s)
            IN  /\ got.res.success
                /\ feedback.ctx.some
                /\ session' = advance_to_next(change.s)
                /\ answered' = answered + 1
        /\ UNCHANGED <<sheet, now, ticks, writers>>

NextFlow ==
    \/ FlowRound
    \/ LearnGetCtx
    \/ LearnEnd

SpecFlow == InitFlow /\ [][NextFlow]_vars

\* C34: when every process_answer is followed by one advance_to_next, with
\* get_current_card_context between them, a session staged with N cards
\* reaches completion (get_current_card_context returns None) after at
\* most 2N answers whatever the answers are: a card is shown only while
\* fewer than 2N answers were given, and every round of the flow adds one.
C34_SessionTermination ==
    /\ [](Active =>
            /\ answered = Len(Answers)
            /\ answered <= 2 * Len(Cards)
            /\ answered = 2 * Len(Cards) => get_current_card_context(session).ctx = None
            /\ get_current_card_context(session).ctx.some
                    => answered < Len(Cards) + Len(Incorrect))
    /\ [][FlowRound => (Answered /\ Phase' >= Phase)]_vars

\* every card was missed in the first pass and answered again in the
\* retry pass
C34_Witness ==
    /\ Active
    /\ Len(Cards) >= 2
    /\ answered = 2 * Len(Cards)
    /\ get_current_card_context(session).ctx = None

----------------------------------------------------------------------------
\* the answer records of the staged card at position i, in log order
AnswersTo(i) == SelectSeq(Answers, LAMBDA rec : rec.card_index = i - 1)

\* the worksheet row of a card id, as it was when the session was staged
RowOf(id) == sheet[CHOOSE r \in 1..Len(sheet) : sheet[r].id = id]

\* C35: a correct answer in the retry pass raises the card's level by one,
\* saturating at 7, as in the first pass, from the level the first-pass
\* miss has lowered; a card that starts at level L, is missed once in the
\* first pass and answered correctly once in the retry pass ends at level
\* max(L, 1), with cnt_shown increased by 2 and cnt_corr_answers by 1.
C35_ReviewPassLevelPolicy ==
    Active =>
        /\ \A user_answer \in UserAnswers :
            LET shown == get_current_card_context(session)
                got   == process_answer(session, user_answer, now)
            IN  (shown.ctx.some /\ shown.ctx.is_reviewing_incorrect
                    /\ got.res.success /\ got.res.is_correct) =>
                    LET at == PyIndex(Incorrect, shown.ctx.index) + 1
                    IN  /\ got.res.level_change.from = Cards[at].level
                        /\ got.res.level_change.to =
                                (IF Cards[at].level < MaxLevel
                                 THEN Cards[at].level + 1 ELSE MaxLevel)
                        /\ got.s[LEARNING_CARDS][at].level = got.res.level_change.to
        /\ \A i \in 1..Len(Cards) :
            LET recs  == AnswersTo(i)
                start == RowOf(Cards[i].id)
            IN  (/\ Len(recs) = 2
                 /\ ~recs[1].is_review /\ ~recs[1].is_correct
                 /\ recs[2].is_review /\ recs[2].is_correct) =>
                    /\ Cards[i].level = (IF start.level > 1 THEN start.level ELSE 1)
                    /\ Cards[i].cnt_shown = start.cnt_shown + 2
                    /\ Cards[i].cnt_corr_answers = start.cnt_corr_answers + 1

\* a card that started at the top level and a card that started at level 0
\* were each missed once and then answered correctly in the retry pass
C35_Witness ==
    /\ Active
    /\ \E i \in 1..Len(Cards) :
        /\ Len(AnswersTo(i)) = 2
        /\ ~AnswersTo(i)[1].is_review /\ ~AnswersTo(i)[1].is_correct
        /\ AnswersTo(i)[2].is_review /\ AnswersTo(i)[2].is_correct
        /\ RowOf(Cards[i].id).level = MaxLevel
        /\ Cards[i].level = MaxLevel

----------------------------------------------------------------------------
(* Two learn sessions on the same worksheet end at the same time: each
   update_spreadsheet call first reads the card set and later sends its
   batch update, and the two calls interleave freely *)

WriterIds == {1, 2}

\* the cards a session hands to update_spreadsheet: the cards of the given
\* ids as read from the worksheet, each answered once
StagedOf(ids) ==
    LET read == read_cards_from_worksheet(InitSheet)
        t    == StartSeconds * SubSecond + 1
    IN  { cards \in UNION { [1..n -> { update_on_answer(read[r], ok, t) :
                                        r \in 1..Len(read), ok \in BOOLEAN }]
                            : n \in 1..MaxCardsPerSession } :
            /\ \A i \in 1..Len(cards) : cards[i].id \in ids
            /\ \A i, j \in 1..Len(cards) : cards[i].id = cards[j].id => i = j
            /\ \A i, j \in 1..Len(cards) : i < j => cards[i].id < cards[j].id }

\* the first session has staged card 1, the second card 2, either may hold card 3
InitWriters ==
    /\ session = <<>>
    /\ sheet = InitSheet
    /\ now = StartSeconds * SubSecond + 1
    /\ answered = 0
    /\ ticks = 0
    /\ \E a \in StagedOf({1, 3}), b \in StagedOf({2, 3}) :
        /\ \E i \in 1..Len(a) : a[i].id = 1
        /\ \E i \in 1..Len(b) : b[i].id = 2
        /\ writers = [w \in WriterIds |->
                        [pc |-> "read", cards |-> IF w = 1 THEN a ELSE b,
                         all_cards |-> <<>>]]

\* update_spreadsheet up to the in-memory merge: read_card_set and the merge
WriterRead(w) ==
    /\ writers[w].pc = "read"
    /\ writers' = [writers EXCEPT
                    ![w].all_cards = merge_card_updates(sheet, writers[w].cards),
                    ![w].pc = "write"]
    /\ UNCHANGED <<session, sheet, now, answered, ticks>>

\* update_spreadsheet from get_worksheet on: the batch update of the cells
WriterWrite(w) ==
    /\ writers[w].pc = "write"
    /\ sheet' = batch_update(sheet, writers[w].all_cards)
    /\ writers' = [writers EXCEPT ![w].pc = "done"]
    /\ UNCHANGED <<session, now, answered, ticks>>

NextWriters ==
    \/ \E w \in WriterIds : WriterRead(w)
    \/ \E w \in WriterIds : WriterWrite(w)

SpecWriters == InitWriters /\ [][NextWriters]_vars

\* the ids of the cards a writer has staged
StagedIds(w) == { writers[w].cards[i].id : i \in 1..Len(writers[w].cards) }

\* the worksheet row of the card holds the dynamic values of the card
HoldsValuesOf(row, card) ==
    /\ row.cnt_shown = card.cnt_shown
    /\ row.cnt_corr_answers = card.cnt_corr_answers
    /\ row.level = card.level
    /\ row.last_shown = format_timestamp(card.last_shown)

----------------------------------------------------------------------------
(* src/services/auth_manager.py, src/user_manager.py: login and logout in
   the browser session that also holds the learn and browse sessions *)

Users == {1, 2}

\* AuthManager.handle_callback after a successful OAuth exchange
handle_callback(s, user, has_refresh_token, expiry) ==
    LET s1 == IF has_refresh_token THEN sm_set(s, REFRESH_TOKEN_ID, user) ELSE s
        s2 == sm_set(s1, ACCESS_TOKEN, user)
        s3 == sm_set(s2, ACCESS_TOKEN_EXPIRY, expiry)
        s4 == sm_set(s3, USER_ID, user)
        s5 == sm_set(s4, USER_GOOGLE_ID, user)
    IN  sm_remove(sm_remove(s5, AUTH_STATE), AUTH_REDIRECT_URI)

\* AuthManager.is_authenticated: credentials of a user are in the session
is_authenticated(s) == sm_has(s, USER_ID) /\ sm_has(s, ACCESS_TOKEN)

\* AuthManager.clear_auth_session
clear_auth_session(s) == clear_namespace(clear_namespace(s, "auth"), "user")

\* AuthManager.logout: the session after (the refresh tokens are database rows)
logout(s) == clear_namespace(clear_auth_session(s), "learning")

\* user_manager.clear_user_session
clear_user_session(s) ==
    clear_namespace(clear_namespace(clear_namespace(s, "auth"), "user"),
                    "learning")

\* /auth/callback
Login ==
    /\ \E user \in Users, has_refresh_token \in BOOLEAN :
        session' = handle_callback(session, user, has_refresh_token, now)
    /\ UNCHANGED <<sheet, now, answered, ticks, writers>>

Logout ==
    /\ session' = logout(session)
    /\ UNCHANGED <<sheet, now, answered, ticks, writers>>

\* /auth/clear
ClearCredentials ==
    /\ session' = clear_user_session(session)
    /\ UNCHANGED <<sheet, now, answered, ticks, writers>>

\* the learn and browse routes run behind require_auth
NextAuth ==
    \/ Login
    \/ Logout
    \/ ClearCredentials
    \/ is_authenticated(session) /\ LearnStart
    \/ is_authenticated(session) /\ LearnGetCtx
    \/ is_authenticated(session) /\ LearnProcessAnswer
    \/ is_authenticated(session) /\ LearnAdvance
    \/ is_authenticated(session) /\ LearnEnd
    \/ is_authenticated(session) /\ ReviewStart
    \/ is_authenticated(session) /\ ReviewNavigate
    \/ is_authenticated(session) /\ ReviewEnd

SpecAuth == Init /\ [][NextAuth]_vars

\* the step discards the learn snapshot: it clears it or stages another over it
Discarded ==
    /\ Active
    /\ \/ ~Active'
       \/ Active' /\ Len(Answers') < Len(Answers)

\* C37: a learn snapshot that holds at least one processed answer is never
\* cleared or overwritten without a write-back attempt on it first, whichever
\* operation discards it: end_session, a start_session issued while a session
\* is active, or logout.
C37_NoAnswerDropped ==
    [][(Discarded /\ Answers # <<>>) =>
            \E early, user, store_ok \in BOOLEAN :
                LET got == end_session(session, sheet, early, user, store_ok)
                IN  session' = got.s /\ sheet' = got.rows]_vars

----------------------------------------------------------------------------
\* the staged cards that have no answer record yet
Unanswered == { i \in 1..Len(Cards) : AnswersTo(i) = <<>> }

\* C38: for an early end at any point of a session, in the first pass or in
\* the retry pass, the reported cards_remaining equals the number of staged
\* cards that have not been answered yet, and so lies between 0 and
\* original_count.
C38_CardsRemaining ==
    Active =>
        \A user, store_ok \in BOOLEAN :
            LET res == end_session(session, sheet, TRUE, user, store_ok).res
            IN  /\ res.cards_remaining = Cardinality(Unanswered)
                /\ 0 <= res.cards_remaining
                /\ res.cards_remaining <= res.original_count

----------------------------------------------------------------------------
\* the session stores the five operations leave from the session store s
AfterSessionOp(s) ==
    { get_current_card_context(s).s, advance_to_next(s), get_level_change(s).s }
    \cup { process_answer(s, user_answer, now).s : user_answer \in UserAnswers }
    \cup { end_session(s, sheet, early, user, store_ok).s :
            early \in BOOLEAN, user \in BOOLEAN, store_ok \in BOOLEAN }

\* C39: when no learn session is active, each of get_current_card_context,
\* process_answer, advance_to_next, get_level_change and end_session leaves
\* the session store without any learning-namespace key, so that no partial
\* session state such as a cursor without cards is ever created.
C39_NoTraceWithoutSession ==
    ~Active => \A after \in AfterSessionOp(session) :
                    Namespace(after, "learning") = <<>>

----------------------------------------------------------------------------
\* the session stores a logout leaves from the current state
AfterLogout == { logout(session), clear_user_session(session) }

\* C40: after logout neither learn-session nor browse-session state (cards,
\* index, tab, gid, answers) remains in the session store, so a user who logs
\* in afterwards in the same browser session can neither observe nor
\* continue the previous user's learn or browse session.
C40_StateEndsWithLogout ==
    \A after \in AfterLogout :
        /\ Namespace(after, "learning") = <<>>
        /\ Namespace(after, "review") = <<>>
        /\ \A user \in Users :
            LET next == handle_callback(after, user, TRUE, now)
            IN  /\ ~get_current_card_context(next).ctx.some
                /\ ~review_get_current_card_context(next).ctx.some

====
